---------------------------- MODULE Spec2Model ----------------------------
(***************************************************************************)
(* Chapter-title rewrite engine of the audiobook converter.                *)
(*                                                                         *)
(* Text is modelled as a sequence of one-character strings, so that        *)
(* slicing, searching and concatenation are computed and not assumed.      *)
(* Positions follow Python: a match (s, e) covers the characters           *)
(* text[s+1 .. e] of the 1-based TLA+ sequence, 0 <= s <= e <= Len(text).  *)
(***************************************************************************)
EXTENDS Integers, Sequences, FiniteSets, TLC

VARIABLES
  original_titles,  \* AudiobookConverterGUI.original_titles
  patterns_list,    \* rows of RegexListWidget: <<pattern text, replacement text>>
  patterns,         \* local `patterns` of the running pass
  global_counter,   \* local `global_counter` of the running pass
  chapter_titles,   \* local `chapter_titles` of start_conversion
  preview_titles,   \* texts of the items of the preview list widget
  edited_titles,    \* AudiobookConverterGUI.edited_titles (dict)
  conversion_thread, \* AudiobookConverterGUI.conversion_thread
  pc,               \* position of the GUI thread
  preview_failed,   \* update_chapter_preview: the except branch ran in the last pass
  fmt_num,          \* format_number: argument num
  fmt_body,         \* format_number: argument pattern
  fmt_out,          \* format_number: returned text
  fmt_pc,           \* format_number: "in" before the call, "out" after
  sc_title,         \* apply_single_pattern: argument title
  sc_pattern,       \* apply_single_pattern: argument pattern_text
  sc_replacement,   \* apply_single_pattern: argument replacement_text
  sc_pos,           \* pattern.finditer: position at which the scan resumes
  sc_must_advance,  \* pattern.finditer: the next match may not be empty at sc_pos
  sc_matches,       \* apply_single_pattern: local `matches`, as far as collected
  sc_result,        \* apply_single_pattern: returned <<processed_title, rich_text>>
  sc_pc,            \* apply_single_pattern: "finditer", "sub" or "done"
  mv_log,           \* the moves of rows of the rule list so far: operation, row
                    \* and the rows before it
  input_path,       \* the path in the input field (AudiobookConverterGUI.input_path)
  chapter_files,    \* AudiobookConverterGUI.chapter_files
  thread_input_dir, \* ConversionThread.input_dir
  thread_titles,    \* ConversionThread.chapter_titles
  stop_requested,   \* ConversionThread._stop_requested, read by stop_event
  run_pc,           \* ConversionThread.run: "none" without a thread, "started",
                    \* "emitted" with the signal emitted, "ended" when the
                    \* thread runs no more
  signal,           \* the signal ConversionThread.run has emitted, or "none"
  ffmpeg,           \* the transcoder subprocess: "none", "running", "exited"
                    \* or "terminated"
  returncode,       \* process.returncode once the subprocess has exited
  stderr_lines,     \* lines the subprocess has written that are not read yet
  chapters,         \* the chapter titles create_chapter_metadata has written
  loop_pc,          \* generate_m4b and run_ffmpeg_with_progress: position of
                    \* the caller
  stop_while_running, \* stop() was called while the subprocess was running
  esc_title,        \* create_chapter_metadata: local `title`
  esc_out,          \* create_chapter_metadata: local `escaped_title`
  esc_pc,           \* "in" before the escaping, "out" after
  cmd_settings,     \* generate_m4b: argument settings
  cmd_codecs,       \* the codecs get_audio_codec reads from the input files
  cmd_audio,        \* generate_m4b: the audio options added to cmd
  cmd_pc,           \* "in" before the command is built, "out" after
  ch_durations,     \* the durations get_audio_duration reads, file by file
  ch_start_time,    \* create_chapter_metadata: local `start_time`
  ch_chapters,      \* the START and END written, chapter by chapter
  ch_pc,            \* create_chapter_metadata: "loop" or "done"
  button_text,      \* convert_stop_button: text
  button_enabled,   \* convert_stop_button: enabled
  progress_visible, \* progress_bar: visible
  pending,          \* the signals of conversion threads queued for the GUI
                    \* thread and not handled yet
  is_editing,       \* AudiobookConverterGUI.is_editing
  edit_handler_connected, \* AudiobookConverterGUI._edit_handler_connected
  edit_item,        \* the row of the item whose editor is open, 0 for none
  disk,             \* the control files in the working directory
  temp_files        \* generate_m4b: local `temp_files`

vars == <<original_titles, patterns_list, patterns, global_counter,
          chapter_titles, preview_titles, edited_titles,
          conversion_thread, pc, preview_failed,
          fmt_num, fmt_body, fmt_out, fmt_pc,
          sc_title, sc_pattern, sc_replacement, sc_pos, sc_must_advance,
          sc_matches, sc_result, sc_pc, mv_log,
          input_path, chapter_files,
          thread_input_dir, thread_titles, stop_requested, run_pc, signal,
          ffmpeg, returncode, stderr_lines, chapters, loop_pc,
          stop_while_running,
          esc_title, esc_out, esc_pc,
          cmd_settings, cmd_codecs, cmd_audio, cmd_pc,
          ch_durations, ch_start_time, ch_chapters, ch_pc,
          button_text, button_enabled, progress_visible, pending,
          is_editing, edit_handler_connected, edit_item,
          disk, temp_files>>

guiVars == <<original_titles, patterns_list, patterns, global_counter,
             chapter_titles, preview_titles, edited_titles,
             conversion_thread, pc, preview_failed>>

fmtVars == <<fmt_num, fmt_body, fmt_out, fmt_pc>>

scanVars == <<sc_title, sc_pattern, sc_replacement, sc_pos, sc_must_advance,
              sc_matches, sc_result, sc_pc>>

\* the variables of the functions called on their own
escVars == <<esc_title, esc_out, esc_pc>>

cmdVars == <<cmd_settings, cmd_codecs, cmd_audio, cmd_pc>>

chVars == <<ch_durations, ch_start_time, ch_chapters, ch_pc>>

\* the variables of the functions of m4b_generator.py called on their own
pureVars == <<escVars, cmdVars, chVars>>

callVars == <<fmtVars, scanVars, mv_log, pureVars>>

dirVars == <<input_path, chapter_files>>

threadVars == <<thread_input_dir, thread_titles, stop_requested, run_pc, signal>>

ffVars == <<ffmpeg, returncode, stderr_lines, chapters, loop_pc,
           stop_while_running>>

\* the convert button, the progress bar and the queued signals
buttonVars == <<button_text, button_enabled, progress_visible, pending>>

editVars == <<is_editing, edit_handler_connected, edit_item>>

tempVars == <<disk, temp_files>>

shellVars == <<buttonVars, editVars, tempVars>>

----------------------------------------------------------------------------
(* Bounds of the model.                                                    *)

MaxIndex == 12      \* largest zero-based index given to format_number
MaxWidth == 3       \* largest number of letters n in a placeholder body
MaxOffset == 11     \* largest offset K in a placeholder body
MaxTitles == 2      \* largest number of chapter titles (input files)
MaxRules == 2       \* largest number of rows of the rule list
MaxScanLen == 3     \* longest title given to apply_single_pattern on its own
MaxRows == 3        \* largest number of rows when rows are moved
MaxMoves == 2       \* largest number of moves in a row
MaxPending == 2     \* most signals queued for the GUI thread when a conversion
                    \* is started

----------------------------------------------------------------------------
(* Text helpers (Python str).                                              *)

DigitChars == <<"0", "1", "2", "3", "4", "5", "6", "7", "8", "9">>

IsDigit(c) == \E d \in 1..10 : DigitChars[d] = c

DigitVal(c) == (CHOOSE d \in 1..10 : DigitChars[d] = c) - 1

\* text[s:e] of Python, 0 <= s, e
Slice(text, s, e) ==
  IF e <= s THEN <<>>
  ELSE SubSeq(text, s + 1, IF e > Len(text) THEN Len(text) ELSE e)

\* text.count(c) for a one-character c
RECURSIVE CountChar(_, _)
CountChar(text, c) ==
  IF text = <<>> THEN 0
  ELSE (IF Head(text) = c THEN 1 ELSE 0) + CountChar(Tail(text), c)

\* position of the first occurrence of character c, or -1 (str.find)
RECURSIVE FindCharFrom(_, _, _)
FindCharFrom(text, c, i) ==
  IF i >= Len(text) THEN -1
  ELSE IF text[i + 1] = c THEN i
  ELSE FindCharFrom(text, c, i + 1)

\* int(text) for a text of decimal digits
RECURSIVE int(_)
int(text) ==
  IF text = <<>> THEN 0
  ELSE 10 * int(SubSeq(text, 1, Len(text) - 1)) + DigitVal(text[Len(text)])

\* str(num) for num >= 0
RECURSIVE str(_)
str(num) ==
  IF num < 10 THEN <<DigitChars[num + 1]>>
  ELSE Append(str(num \div 10), DigitChars[(num % 10) + 1])

\* text.rjust(width, "0")
RECURSIVE ZeroFill(_, _)
ZeroFill(text, width) ==
  IF Len(text) >= width THEN text ELSE ZeroFill(<<"0">> \o text, width)

\* c * count
RECURSIVE Repeat(_, _)
Repeat(c, count) == IF count <= 0 THEN <<>> ELSE <<c>> \o Repeat(c, count - 1)

----------------------------------------------------------------------------
(* The regular expressions of Python's re module, for the subset of        *)
(* pattern syntax used here: literal characters, the quantifiers * + ?     *)
(* with their lazy forms *? +? ??, and one capturing group ( ... ) without *)
(* a quantifier.  A compiled pattern is a sequence of tokens.              *)

Unlimited == 0 - 1   \* the upper limit of * and +: no limit

Tok(kind, c, lo, hi, greedy) ==
  [kind |-> kind, c |-> c, lo |-> lo, hi |-> hi, greedy |-> greedy]

CompileError == [ok |-> FALSE, toks |-> <<>>, groups |-> 0]

\* the pattern parser: position i (0-based), tokens so far, open groups,
\* groups seen, and whether the last token may still take a quantifier (q = 1)
\* or the lazy mark (q = 2)
RECURSIVE ParseFrom(_, _, _, _, _, _)
ParseFrom(p, i, toks, depth, groups, q) ==
  IF i >= Len(p)
  THEN IF depth = 0 THEN [ok |-> TRUE, toks |-> toks, groups |-> groups]
       ELSE CompileError      \* missing ), unterminated subpattern
  ELSE
    LET ch == p[i + 1]
        last == toks[Len(toks)]
        Requantify(lo, hi) ==
          SubSeq(toks, 1, Len(toks) - 1) \o <<Tok("lit", last.c, lo, hi, TRUE)>>
        Lazy ==
          SubSeq(toks, 1, Len(toks) - 1) \o
            <<Tok("lit", last.c, last.lo, last.hi, FALSE)>>
    IN CASE ch = "(" ->
              ParseFrom(p, i + 1, Append(toks, Tok("open", "", 0, 0, TRUE)),
                        depth + 1, groups + 1, 0)
         [] ch = ")" ->
              IF depth = 0 THEN CompileError   \* unbalanced parenthesis
              ELSE ParseFrom(p, i + 1, Append(toks, Tok("close", "", 0, 0, TRUE)),
                             depth - 1, groups, 0)
         [] ch = "*" ->
              IF q # 1 THEN CompileError       \* nothing to repeat, multiple repeat
              ELSE ParseFrom(p, i + 1, Requantify(0, Unlimited), depth, groups, 2)
         [] ch = "+" ->
              IF q # 1 THEN CompileError
              ELSE ParseFrom(p, i + 1, Requantify(1, Unlimited), depth, groups, 2)
         [] ch = "?" ->
              IF q = 1 THEN ParseFrom(p, i + 1, Requantify(0, 1), depth, groups, 2)
              ELSE IF q = 2 THEN ParseFrom(p, i + 1, Lazy, depth, groups, 0)
              ELSE CompileError
         [] OTHER ->
              ParseFrom(p, i + 1, Append(toks, Tok("lit", ch, 1, 1, TRUE)),
                        depth, groups, 1)

\* re.compile(pattern_text): ok = FALSE stands for raising re.error
re_compile(pattern_text) == ParseFrom(pattern_text, 0, <<>>, 0, 0, 0)

NoMatch == <<>>

\* number of consecutive characters c of text from position i, at most hi
RECURSIVE RunLength(_, _, _, _)
RunLength(text, c, i, hi) ==
  IF hi = 0 \/ i >= Len(text) \/ text[i + 1] # c THEN 0
  ELSE 1 + RunLength(text, c, i + 1, hi - 1)

\* The backtracking matcher.  ctx holds the tokens, the text, the position
\* where this attempt started and whether an empty match is refused there.
\* Token k is tried at position i with the repetition count j (Fresh: the
\* first count in the order of preference, the largest for a greedy
\* quantifier and the smallest for a lazy one).  The result is NoMatch or
\* <<end, group start, group end>>.
Fresh == 0 - 1

RECURSIVE MatchTok(_, _, _, _, _)
MatchTok(ctx, k, i, g, j) ==
  IF k > Len(ctx.toks)
  THEN IF ctx.must_advance /\ i = ctx.start THEN NoMatch ELSE <<i, g[1], g[2]>>
  ELSE
    LET t == ctx.toks[k]
    IN CASE t.kind = "open" -> MatchTok(ctx, k + 1, i, <<i, g[2]>>, Fresh)
         [] t.kind = "close" -> MatchTok(ctx, k + 1, i, <<g[1], i>>, Fresh)
         [] OTHER ->
              LET run == RunLength(ctx.text, t.c, i, t.hi)
                  last == IF t.greedy THEN t.lo ELSE run
                  step == IF t.greedy THEN 0 - 1 ELSE 1
                  count == IF j # Fresh THEN j
                           ELSE IF t.greedy THEN run ELSE t.lo
                  r == MatchTok(ctx, k + 1, i + count, g, Fresh)
              IN IF run < t.lo THEN NoMatch
                 ELSE IF r # NoMatch THEN r
                 ELSE IF count = last THEN NoMatch
                 ELSE MatchTok(ctx, k, i, g, count + step)

\* the match found by an attempt at position p, or NoMatch
MatchAt(p, r) ==
  IF r = NoMatch THEN NoMatch ELSE [s |-> p, e |-> r[1], gs |-> r[2], ge |-> r[3]]

\* one search of the scanner: the leftmost match starting at pos or later;
\* an empty match at pos itself is refused when must_advance is set
RECURSIVE SearchFrom(_, _, _, _, _)
RECURSIVE SearchNext(_, _, _, _, _, _)
\* variant: an empty match is accepted again where the last match ended
SearchFrom_noadvance(toks, text, pos, p, must_advance) ==
  IF p > Len(text) THEN NoMatch
  ELSE SearchNext(
         MatchAt(p, MatchTok([toks |-> toks, text |-> text, start |-> p,
                              must_advance |-> FALSE],
                             1, p, <<-1, -1>>, Fresh)),
         toks, text, pos, p, must_advance)

\* the leftmost match that starts at p or later; the scan resumed at pos
SearchFrom(toks, text, pos, p, must_advance) ==
  IF p > Len(text) THEN NoMatch
  ELSE SearchNext(
         MatchAt(p, MatchTok([toks |-> toks, text |-> text, start |-> p,
                              must_advance |-> (must_advance /\ p = pos)],
                             1, p, <<-1, -1>>, Fresh)),
         toks, text, pos, p, must_advance)

SearchNext(m, toks, text, pos, p, must_advance) ==
  IF m # NoMatch THEN m ELSE SearchFrom(toks, text, pos, p + 1, must_advance)

\* pattern.search(text)
re_search(toks, text) == SearchFrom(toks, text, 0, 0, FALSE)

\* list(pattern.finditer(text)): after a match the scan resumes at its end,
\* and after an empty match the next match may not be empty at that place
RECURSIVE ScanFrom(_, _, _, _)
RECURSIVE ScanNext(_, _, _)
ScanFrom(toks, text, pos, must_advance) ==
  ScanNext(toks, text, SearchFrom(toks, text, pos, pos, must_advance))

ScanNext(toks, text, m) ==
  IF m = NoMatch THEN <<>>
  ELSE <<m>> \o ScanFrom(toks, text, m.e, m.e = m.s)

re_finditer(toks, text) == ScanFrom(toks, text, 0, FALSE)

\* the text of a match and of its group
MatchText(text, m) == Slice(text, m.s, m.e)

GroupText(text, m) == IF m.gs < 0 \/ m.ge < 0 THEN <<>> ELSE Slice(text, m.gs, m.ge)

Backslash == "\\"

Newline == "\n"

AsciiLetters ==
  {"a", "b", "c", "d", "e", "f", "g", "h", "i", "j", "k", "l", "m",
   "n", "o", "p", "q", "r", "s", "t", "u", "v", "w", "x", "y", "z",
   "A", "B", "C", "D", "E", "F", "G", "H", "I", "J", "K", "L", "M",
   "N", "O", "P", "Q", "R", "S", "T", "U", "V", "W", "X", "Y", "Z"}

IsLetter(c) == c \in AsciiLetters

\* The replacement template of pattern.sub(repl, text) for a string repl:
\* \\ is a backslash, \n a newline, \1..\9 a group reference (an error when
\* the pattern has no such group), a backslash before another letter or at the
\* end is an error, any other escape is kept.  The result is the expansion for
\* the match m; ok = FALSE stands for raising re.error.
RECURSIVE ExpandFrom(_, _, _, _, _, _)
ExpandFrom(repl, i, groups, text, m, acc) ==
  IF i >= Len(repl) THEN [ok |-> TRUE, text |-> acc]
  ELSE
    LET ch == repl[i + 1]
    IN IF ch # Backslash
       THEN ExpandFrom(repl, i + 1, groups, text, m, Append(acc, ch))
       ELSE IF i + 1 >= Len(repl) THEN [ok |-> FALSE, text |-> <<>>]
       ELSE
         LET nx == repl[i + 2]
         IN CASE nx = Backslash ->
                   ExpandFrom(repl, i + 2, groups, text, m, Append(acc, Backslash))
              [] nx = "n" ->
                   ExpandFrom(repl, i + 2, groups, text, m, Append(acc, Newline))
              [] IsDigit(nx) /\ nx # "0" ->
                   IF DigitVal(nx) > groups THEN [ok |-> FALSE, text |-> <<>>]
                   ELSE ExpandFrom(repl, i + 2, groups, text, m,
                                   acc \o GroupText(text, m))
              [] IsLetter(nx) \/ nx = "0" -> [ok |-> FALSE, text |-> <<>>]
              [] OTHER ->
                   ExpandFrom(repl, i + 2, groups, text, m,
                              acc \o <<Backslash, nx>>)

expand_template(repl, groups, text, m) == ExpandFrom(repl, 0, groups, text, m, <<>>)

\* the text between the matches with every match replaced by pieces[k]
RECURSIVE Splice(_, _, _, _, _)
Splice(text, matches, pieces, k, last_end) ==
  IF k > Len(matches) THEN Slice(text, last_end, Len(text))
  ELSE Slice(text, last_end, matches[k].s) \o pieces[k]
         \o Splice(text, matches, pieces, k + 1, matches[k].e)

\* a match that stands for "no match yet" while the template is parsed
NullMatch == [s |-> 0, e |-> 0, gs |-> 0 - 1, ge |-> 0 - 1]

\* the substitution of the matches already found
SubTemplate(compiled, repl, text, matches) ==
  IF ~expand_template(repl, compiled.groups, text, NullMatch).ok
  THEN [ok |-> FALSE, text |-> text]
  ELSE [ok |-> TRUE,
        text |-> Splice(text, matches,
                        [k \in 1..Len(matches) |->
                           expand_template(repl, compiled.groups, text, matches[k]).text],
                        1, 0)]

\* pattern.sub(repl, text) for a string repl: ok = FALSE stands for raising
\* re.error
re_sub_template(compiled, repl, text) ==
  SubTemplate(compiled, repl, text, re_finditer(compiled.toks, text))

SubLiteral(literal, text, matches) ==
  Splice(text, matches, [k \in 1..Len(matches) |-> literal], 1, 0)

\* pattern.sub(function, text) for a function that returns the same literal
\* text for every match
re_sub_literal(compiled, literal, text) ==
  SubLiteral(literal, text, re_finditer(compiled.toks, text))

----------------------------------------------------------------------------
(* pattern.py: format_number                                               *)

\* pattern.split("+")[1]: the text between the first and the second "+"
SplitPlusSecond(pattern) ==
  LET first == FindCharFrom(pattern, "+", 0)
      second == FindCharFrom(pattern, "+", first + 1)
  IN Slice(pattern, first + 1, IF second = -1 THEN Len(pattern) ELSE second)

\* variant: the offset is left out
format_number_dropoffset(num, pattern) ==
  ZeroFill(str(num), CountChar(pattern, "n"))

\* variant: the number is cut to the width
format_number_truncate(num, pattern) ==
  LET padding == CountChar(pattern, "n")
      start == IF CountChar(pattern, "+") > 0
               THEN int(SplitPlusSecond(pattern)) ELSE 0
      digits == ZeroFill(str(num + start), padding)
  IN SubSeq(digits, Len(digits) - padding + 1, Len(digits))

format_number(num, pattern) ==
  LET padding == CountChar(pattern, "n")
      start == IF CountChar(pattern, "+") > 0
               THEN int(SplitPlusSecond(pattern)) ELSE 0
  IN ZeroFill(str(num + start), padding)

----------------------------------------------------------------------------
(* The counter placeholder \{n+(?:\+\d+)?\} and str.replace.               *)

\* variant: the digits after + may be missing, as in \{n+(?:\+\d*)?\}
PlaceholderEnd_nodigits(text, i) ==
  IF i >= Len(text) \/ text[i + 1] # "{" THEN -1
  ELSE
    LET ns == RunLength(text, "n", i + 1, Unlimited)
        j == i + 1 + ns
    IN IF ns = 0 \/ j >= Len(text) THEN -1
       ELSE IF text[j + 1] = "}" THEN j + 1
       ELSE IF text[j + 1] # "+" THEN -1
       ELSE
         LET ds == CHOOSE d \in 0..Len(text) :
                     /\ \A k \in 1..d : j + 1 + k <= Len(text) /\ IsDigit(text[j + 1 + k])
                     /\ ~(j + 2 + d <= Len(text) /\ IsDigit(text[j + 2 + d]))
             e == j + 1 + ds
         IN IF e >= Len(text) \/ text[e + 1] # "}" THEN -1 ELSE e + 1

\* the end of the placeholder that starts at position i, or -1
PlaceholderEnd(text, i) ==
  IF i >= Len(text) \/ text[i + 1] # "{" THEN -1
  ELSE
    LET ns == RunLength(text, "n", i + 1, Unlimited)
        j == i + 1 + ns
    IN IF ns = 0 \/ j >= Len(text) THEN -1
       ELSE IF text[j + 1] = "}" THEN j + 1
       ELSE IF text[j + 1] # "+" THEN -1
       ELSE
         LET ds == CHOOSE d \in 0..Len(text) :
                     /\ \A k \in 1..d : j + 1 + k <= Len(text) /\ IsDigit(text[j + 1 + k])
                     /\ ~(j + 2 + d <= Len(text) /\ IsDigit(text[j + 2 + d]))
             e == j + 1 + ds
         IN IF ds = 0 \/ e >= Len(text) \/ text[e + 1] # "}" THEN -1 ELSE e + 1

\* n_pattern.finditer(text): the placeholders of text, left to right
RECURSIVE PlaceholdersFrom(_, _)
RECURSIVE PlaceholdersNext(_, _, _)
PlaceholdersFrom(text, i) ==
  IF i >= Len(text) THEN <<>>
  ELSE PlaceholdersNext(text, i, PlaceholderEnd(text, i))

PlaceholdersNext(text, i, e) ==
  IF e = -1 THEN PlaceholdersFrom(text, i + 1)
  ELSE <<Slice(text, i, e)>> \o PlaceholdersFrom(text, e)

n_pattern_finditer(text) == PlaceholdersFrom(text, 0)

\* re.search(r"\{n+(?:\+\d+)?\}", text)
n_pattern_search(text) == n_pattern_finditer(text) # <<>>

\* text.replace(old, new) for a non-empty old
RECURSIVE str_replace(_, _, _)
str_replace(text, old, new) ==
  IF Len(text) < Len(old) THEN text
  ELSE IF SubSeq(text, 1, Len(old)) = old
  THEN new \o str_replace(SubSeq(text, Len(old) + 1, Len(text)), old, new)
  ELSE <<Head(text)>> \o str_replace(Tail(text), old, new)

----------------------------------------------------------------------------
(* pattern.py: process_replacement_text and apply_single_pattern           *)

\* n_match.group(0)[1:-1]
PlaceholderBody(token) == SubSeq(token, 2, Len(token) - 1)

\* the loop over n_pattern.finditer(replacement_text)
RECURSIVE ResolvePlaceholders(_, _, _, _)
ResolvePlaceholders(actual_replacement, n_matches, k, counter) ==
  IF k > Len(n_matches) THEN actual_replacement
  ELSE
    LET formatted_num == format_number(counter - 1, PlaceholderBody(n_matches[k]))
    IN ResolvePlaceholders(str_replace(actual_replacement, n_matches[k], formatted_num),
                           n_matches, k + 1, counter)

process_replacement_text(replacement_text, counter) ==
  ResolvePlaceholders(replacement_text, n_pattern_finditer(replacement_text),
                      1, counter)

\* the two markings of the rich text preview
InsertSpan == "<span style=\"background-color: #E6FFE6; color: #28a745;\">"

RemoveSpan == "<span style=\"background-color: #FFE6E6; color: #FF0000;\">"

EndSpan == "</span>"

\* variant: a match without replacement is dropped from the preview
RECURSIVE RichText_unmarked(_, _, _, _, _, _)
RichText_unmarked(title, matches, k, last_end, replacement_text, counter) ==
  IF k > Len(matches) THEN Slice(title, last_end, Len(title))
  ELSE
    LET match == matches[k]
        marked ==
          IF replacement_text # <<>>
          THEN <<InsertSpan>>
                 \o process_replacement_text(replacement_text, counter)
                 \o <<EndSpan>>
          ELSE <<>>
    IN Slice(title, last_end, match.s) \o marked
         \o RichText_unmarked(title, matches, k + 1, match.e, replacement_text, counter)

\* the loop that builds rich_text from the matches
RECURSIVE RichText(_, _, _, _, _, _)
RichText(title, matches, k, last_end, replacement_text, counter) ==
  IF k > Len(matches) THEN Slice(title, last_end, Len(title))
  ELSE
    LET match == matches[k]
        marked ==
          IF replacement_text # <<>>
          THEN <<InsertSpan>>
                 \o process_replacement_text(replacement_text, counter)
                 \o <<EndSpan>>
          ELSE <<RemoveSpan>> \o Slice(title, match.s, match.e) \o <<EndSpan>>
    IN Slice(title, last_end, match.s) \o marked
         \o RichText(title, matches, k + 1, match.e, replacement_text, counter)

\* the return value once the substitution has been tried: an error raised
\* by it is caught and the title is returned unchanged without a preview
SubstOutcome(title, subst, rich_text) ==
  IF subst.ok THEN <<subst.text, rich_text>> ELSE <<title, <<>>>>

\* apply_single_pattern after pattern.finditer
ApplyMatches(title, pattern, matches, replacement_text, counter) ==
  IF matches = <<>> THEN <<title, <<>>>>
  ELSE SubstOutcome(
         title,
         IF n_pattern_search(replacement_text)
         THEN [ok |-> TRUE,
               text |-> re_sub_literal(
                          pattern,
                          process_replacement_text(replacement_text, counter),
                          title)]
         ELSE re_sub_template(pattern, replacement_text, title),
         RichText(title, matches, 1, 0, replacement_text, counter))

\* apply_single_pattern after re.compile
ApplyCompiled(title, pattern, replacement_text, counter) ==
  IF ~pattern.ok THEN <<title, <<>>>>
  ELSE ApplyMatches(title, pattern, re_finditer(pattern.toks, title),
                    replacement_text, counter)

\* returns <<processed_title, rich_text>>
apply_single_pattern(title, pattern_text, replacement_text, counter) ==
  ApplyCompiled(title, re_compile(pattern_text), replacement_text, counter)

----------------------------------------------------------------------------
(* widgets.py: the rule list                                               *)

\* variant: the test on the pattern is inverted
get_regex_patterns_inverted(rows) == SelectSeq(rows, LAMBDA row : row[1] = <<>>)

\* only the rows with a non-empty pattern
get_regex_patterns(rows) == SelectSeq(rows, LAMBDA row : row[1] # <<>>)

\* variant: the row above is overwritten and the moved row keeps its content
move_pattern_up_copy(rows, row) ==
  IF row > 0 THEN [rows EXCEPT ![row] = rows[row + 1]] ELSE rows

\* move_pattern_up for the item at the 0-based row: the widget of the item
\* gets the pattern of the row above and the widget above gets its pattern
move_pattern_up(rows, row) ==
  IF row > 0
  THEN [rows EXCEPT ![row + 1] = rows[row], ![row] = rows[row + 1]]
  ELSE rows

\* move_pattern_down for the item at the 0-based row
move_pattern_down(rows, row) ==
  IF row < Len(rows) - 1
  THEN [rows EXCEPT ![row + 1] = rows[row + 2], ![row + 2] = rows[row + 1]]
  ELSE rows

----------------------------------------------------------------------------
(* main_window.py: the conversion pass and the preview pass                *)

\* variant: the counter itself is formatted, not counter - 1
RECURSIVE ConvResolvePlaceholders_counter(_, _, _, _)
ConvResolvePlaceholders_counter(actual_replacement, n_matches, k, counter) ==
  IF k > Len(n_matches) THEN actual_replacement
  ELSE
    LET formatted_num == format_number(counter, PlaceholderBody(n_matches[k]))
    IN ConvResolvePlaceholders_counter(
         str_replace(actual_replacement, n_matches[k], formatted_num),
         n_matches, k + 1, counter)

\* variant: the counter advances with every placeholder resolved
RECURSIVE ConvResolvePlaceholders_bump(_, _, _, _)
ConvResolvePlaceholders_bump(actual_replacement, n_matches, k, counter) ==
  IF k > Len(n_matches) THEN actual_replacement
  ELSE
    LET formatted_num == format_number(counter - 1, PlaceholderBody(n_matches[k]))
    IN ConvResolvePlaceholders_bump(
         str_replace(actual_replacement, n_matches[k], formatted_num),
         n_matches, k + 1, counter + 1)

\* start_conversion: the inner loop over n_pattern.finditer(replacement_text)
RECURSIVE ConvResolvePlaceholders(_, _, _, _)
ConvResolvePlaceholders(actual_replacement, n_matches, k, counter) ==
  IF k > Len(n_matches) THEN actual_replacement
  ELSE
    LET formatted_num == format_number(counter - 1, PlaceholderBody(n_matches[k]))
    IN ConvResolvePlaceholders(str_replace(actual_replacement, n_matches[k], formatted_num),
                               n_matches, k + 1, counter)

\* variant: a substitution that raises loses the title
ConvSubstitute_lost(current_title, subst) ==
  IF subst.ok THEN subst.text ELSE <<>>

\* start_conversion: pattern.sub and the handlers that catch what it raises
ConvSubstitute(current_title, subst) ==
  IF subst.ok THEN subst.text ELSE current_title

\* start_conversion: the body of the loop over the patterns after re.compile
ConvApplyCompiled(current_title, pattern, replacement_text, counter) ==
  IF ~pattern.ok THEN current_title
  ELSE IF re_search(pattern.toks, current_title) = NoMatch THEN current_title
  ELSE ConvSubstitute(
         current_title,
         re_sub_template(
           pattern,
           ConvResolvePlaceholders(replacement_text,
                                   n_pattern_finditer(replacement_text), 1, counter),
           current_title))

\* start_conversion: the body of the loop over the patterns, for one rule
ConvApplyPattern(current_title, pattern_text, replacement_text, counter) ==
  IF pattern_text = <<>> THEN current_title
  ELSE ConvApplyCompiled(current_title, re_compile(pattern_text),
                         replacement_text, counter)

\* variant: the last rule is applied first
RECURSIVE ConvApplyPatterns_reversed(_, _, _, _)
ConvApplyPatterns_reversed(current_title, pats, k, counter) ==
  IF k > Len(pats) THEN current_title
  ELSE ConvApplyPattern(ConvApplyPatterns_reversed(current_title, pats, k + 1, counter),
                        pats[k][1], pats[k][2], counter)

\* variant: a pattern that does not compile ends the loop over the patterns
RECURSIVE ConvApplyPatterns_abort(_, _, _, _)
ConvApplyPatterns_abort(current_title, pats, k, counter) ==
  IF k > Len(pats) THEN current_title
  ELSE IF ~re_compile(pats[k][1]).ok THEN current_title
  ELSE ConvApplyPatterns_abort(
         ConvApplyPattern(current_title, pats[k][1], pats[k][2], counter),
         pats, k + 1, counter)

\* start_conversion: the loop over the patterns, for one title
RECURSIVE ConvApplyPatterns(_, _, _, _)
ConvApplyPatterns(current_title, pats, k, counter) ==
  IF k > Len(pats) THEN current_title
  ELSE ConvApplyPatterns(
         ConvApplyPattern(current_title, pats[k][1], pats[k][2], counter),
         pats, k + 1, counter)

\* _process_single_title: the loop over the patterns; the result is
\* <<current_title, preview_segments>>
RECURSIVE PreviewApplyPatterns(_, _, _, _, _)
RECURSIVE PreviewApplied(_, _, _, _, _)
PreviewApplyPatterns(current_title, preview_segments, pats, k, counter) ==
  IF k > Len(pats) THEN <<current_title, preview_segments>>
  ELSE IF pats[k][1] = <<>>
  THEN PreviewApplyPatterns(current_title, preview_segments, pats, k + 1, counter)
  ELSE PreviewApplied(
         apply_single_pattern(current_title, pats[k][1], pats[k][2], counter),
         preview_segments, pats, k, counter)

\* applied = <<new_title, rich_text>> of rule k
PreviewApplied(applied, preview_segments, pats, k, counter) ==
  PreviewApplyPatterns(
    applied[1],
    IF applied[2] # <<>> THEN Append(preview_segments, applied[2])
    ELSE preview_segments,
    pats, k + 1, counter)

\* dict[key] = value on a dict kept as a set of <<key, value>> pairs
DictSet(dict, key, value) == {kv \in dict : kv[1] # key} \cup {<<key, value>>}

\* the text of the item: the last preview that had changes, or the title
ItemText(current_title, preview_segments) ==
  IF preview_segments # <<>> THEN preview_segments[Len(preview_segments)]
  ELSE current_title

\* variant: the counter advances only when a rule matched
SingleTitleResult_matchtick(original_title, r, counter, edited) ==
  [text |-> ItemText(r[1], r[2]),
   counter |-> IF r[2] # <<>> THEN counter + 1 ELSE counter,
   edited |-> IF r[1] # original_title THEN DictSet(edited, r[1], original_title)
              ELSE edited]

\* _process_single_title after the loop: r = <<current_title, preview_segments>>
SingleTitleResult(original_title, r, counter, edited) ==
  [text |-> ItemText(r[1], r[2]),
   counter |-> counter + 1,
   edited |-> IF r[1] # original_title THEN DictSet(edited, r[1], original_title)
              ELSE edited]

\* returns the item text, the updated counter and the updated edited_titles
process_single_title(original_title, pats, counter, edited) ==
  SingleTitleResult(original_title,
                    PreviewApplyPatterns(original_title, <<>>, pats, 1, counter),
                    counter, edited)

----------------------------------------------------------------------------
(* Files and directories (m4b_generator.py).  A file is its path, given as *)
(* a number that sorts as the path does, the title tag ffprobe reads and   *)
(* the outcome of calling ffprobe on it.  The titles here hold no quotes   *)
(* and no blanks, which is all the clean-up of get_audio_title changes.    *)

\* probe: "ok", "failed" (ffprobe ends with an error: CalledProcessError) or
\* "raises" (subprocess.run raises something else: ffprobe is missing or its
\* output cannot be decoded)
File(name, tag, probe) == [name |-> name, tag |-> tag, probe |-> probe]

\* Path(file_path).stem
Stem(file) == <<"t", DigitChars[file.name + 1]>>

\* returns the title, or raises
get_audio_title(file) ==
  IF file.probe = "raises" THEN [raised |-> TRUE, title |-> <<>>]
  ELSE IF file.probe = "failed" THEN [raised |-> FALSE, title |-> Stem(file)]
  ELSE IF file.tag = <<>> THEN [raised |-> FALSE, title |-> Stem(file)]
  ELSE [raised |-> FALSE, title |-> file.tag]

\* what the text of the input field names: nothing, something that is not a
\* directory, or a directory with its audio files
NoPath == [kind |-> "empty", entries |-> {}]

NotADirectory == [kind |-> "file", entries |-> {}]

Directory(entries) == [kind |-> "dir", entries |-> entries]

Range(seq) == { seq[i] : i \in 1..Len(seq) }

\* audio_files.sort()
RECURSIVE SortFiles(_)
SortFiles(entries) ==
  IF entries = {} THEN <<>>
  ELSE LET first == CHOOSE f \in entries : \A g \in entries : f.name <= g.name
       IN <<first>> \o SortFiles(entries \ {first})

\* returns the sorted audio files of the directory, or raises
process_audio_files(directory) ==
  IF directory.kind # "dir" THEN [raised |-> TRUE, files |-> <<>>]
  ELSE IF directory.entries = {} THEN [raised |-> TRUE, files |-> <<>>]
  ELSE [raised |-> FALSE, files |-> SortFiles(directory.entries)]

\* files whose tags are the given titles
TaggedFiles(titles) == [i \in 1..Len(titles) |-> File(i, titles[i], "ok")]

DirIdle ==
  /\ input_path = NoPath
  /\ chapter_files = <<>>

ThreadIdle ==
  /\ thread_input_dir = NoPath
  /\ thread_titles = <<>>
  /\ stop_requested = FALSE
  /\ run_pc = "none"
  /\ signal = "none"

FfIdle ==
  /\ ffmpeg = "none"
  /\ returncode = 0
  /\ stderr_lines = 0
  /\ chapters = <<>>
  /\ loop_pc = "none"
  /\ stop_while_running = FALSE

RestIdle == ThreadIdle /\ FfIdle

EscIdle ==
  /\ esc_title = <<>>
  /\ esc_out = <<>>
  /\ esc_pc = "out"

CmdIdle ==
  /\ cmd_settings = [codec |-> "AAC", bitrate |-> "Auto", sample_rate |-> "Auto",
                     force_conversion |-> FALSE]
  /\ cmd_codecs = <<>>
  /\ cmd_audio = <<>>
  /\ cmd_pc = "out"

ChapIdle ==
  /\ ch_durations = <<>>
  /\ ch_start_time = 0
  /\ ch_chapters = <<>>
  /\ ch_pc = "done"

PureIdle == EscIdle /\ CmdIdle /\ ChapIdle

\* the window after construction: the button reads "Convert to M4B", the
\* progress bar is hidden, nothing is edited
ButtonIdle ==
  /\ button_text = "Convert to M4B"
  /\ button_enabled = TRUE
  /\ progress_visible = FALSE
  /\ pending = <<>>

EditIdle ==
  /\ is_editing = FALSE
  /\ edit_handler_connected = FALSE
  /\ edit_item = 0

TempIdle ==
  /\ disk = {}
  /\ temp_files = <<>>

ShellIdle == ButtonIdle /\ EditIdle /\ TempIdle

----------------------------------------------------------------------------
(* Specification Spec: the conversion pass and the preview pass over       *)
(* bounded title lists and rule lists.                                     *)

FmtIdle ==
  /\ fmt_num = 0
  /\ fmt_body = <<"n">>
  /\ fmt_out = <<>>
  /\ fmt_pc = "in"

ScanIdle ==
  /\ sc_title = <<>>
  /\ sc_pattern = <<>>
  /\ sc_replacement = <<>>
  /\ sc_pos = 0
  /\ sc_must_advance = FALSE
  /\ sc_matches = <<>>
  /\ sc_result = <<>>
  /\ sc_pc = "done"

MoveIdle == mv_log = <<>>

SeqsUpTo(S, n) == UNION { [1..k -> S] : k \in 0..n }

\* the titles a scan may deliver
TitleSet == { <<"a">>, <<"x">>, <<"a", "x">> }

Rule(pattern_text, replacement_text) == <<pattern_text, replacement_text>>

\* the rows a user may have typed: <<pattern, replacement>>
RuleSet ==
  { Rule(<<"a">>, <<"b">>),
    Rule(<<"b">>, <<"c">>),
    Rule(<<"x">>, <<"Y">>),
    Rule(<<"(">>, <<"Z">>),
    Rule(<<>>, <<"Z">>) }

\* titles and rows that exercise the chapter counter
CounterTitleSet == { <<"a">>, <<"x">>, <<"x", "a", "x">> }

CounterRuleSet ==
  { Rule(<<"x">>, <<"t", "r", "a", "c", "k", "-", "{", "n", "n", "}">>),
    Rule(<<"x">>, <<"{", "n", "+", "1", "0", "}">>),
    Rule(<<"x">>, <<"{", "n", "}", "-", "{", "n", "n", "+", "5", "}">>),
    Rule(<<"k">>, <<"{", "n", "}">>),
    Rule(<<"(">>, <<"Z">>) }

GuiScanned(titles, rules) ==
  /\ original_titles \in SeqsUpTo(titles, MaxTitles)
  /\ patterns_list \in SeqsUpTo(rules, MaxRules)
  /\ patterns = <<>>
  /\ global_counter = 1
  /\ chapter_titles = <<>>
  /\ preview_titles = original_titles
  /\ edited_titles = {}
  /\ conversion_thread = "none"
  /\ pc = "scanned"
  /\ preview_failed = FALSE
  /\ chapter_files = TaggedFiles(original_titles)
  /\ input_path = Directory(Range(chapter_files))

\* update_chapter_list has filled original_titles and the preview list from
\* the scanned files and is about to call update_chapter_preview
Init == GuiScanned(TitleSet, RuleSet) /\ FmtIdle /\ ScanIdle /\ MoveIdle /\ RestIdle /\ PureIdle /\ ShellIdle

InitCounter == GuiScanned(CounterTitleSet, CounterRuleSet) /\ FmtIdle /\ ScanIdle /\ MoveIdle /\ RestIdle /\ PureIdle /\ ShellIdle

\* update_chapter_preview, up to the loop over the titles
\* (preview_titles.clear() removes every item, and with it an open editor)
UpdateChapterPreview ==
  /\ pc \in {"scanned", "idle"}
  /\ LET pats == get_regex_patterns(patterns_list)
     IN IF original_titles = <<>>
        THEN /\ preview_titles' = <<>>
             /\ pc' = "idle"
             /\ UNCHANGED <<patterns, global_counter>>
        ELSE IF pats = <<>> \/ \A k \in 1..Len(pats) : pats[k][1] = <<>>
        THEN /\ preview_titles' = original_titles
             /\ pc' = "idle"
             /\ UNCHANGED <<patterns, global_counter>>
        ELSE /\ preview_titles' = <<>>
             /\ patterns' = pats
             /\ global_counter' = 1
             /\ pc' = "preview"
  /\ preview_failed' = FALSE
  /\ edit_item' = 0
  /\ UNCHANGED <<original_titles, patterns_list, chapter_titles, edited_titles,
                 conversion_thread>>
  /\ UNCHANGED callVars
  /\ UNCHANGED <<dirVars, threadVars, ffVars>>
  /\ UNCHANGED <<buttonVars, is_editing, edit_handler_connected, tempVars>>

\* the item is added to the list and the counter taken over
AddPreviewItem(r) ==
  /\ preview_titles' = Append(preview_titles, r.text)
  /\ global_counter' = r.counter
  /\ edited_titles' = r.edited

\* update_chapter_preview: one turn of the loop over the titles
PreviewTitle ==
  /\ pc = "preview"
  /\ Len(preview_titles) < Len(original_titles)
  /\ AddPreviewItem(process_single_title(original_titles[Len(preview_titles) + 1],
                                         patterns, global_counter, edited_titles))
  /\ UNCHANGED <<original_titles, patterns_list, patterns, chapter_titles,
                 conversion_thread, pc, preview_failed>>
  /\ UNCHANGED callVars
  /\ UNCHANGED <<dirVars, threadVars, ffVars, shellVars>>

\* update_chapter_preview returns; its locals are gone
FinishPreview ==
  /\ pc = "preview"
  /\ Len(preview_titles) = Len(original_titles)
  /\ pc' = "idle"
  /\ patterns' = <<>>
  /\ global_counter' = 1
  /\ UNCHANGED <<original_titles, patterns_list, chapter_titles, preview_titles,
                 edited_titles, conversion_thread, preview_failed>>
  /\ UNCHANGED callVars
  /\ UNCHANGED <<dirVars, threadVars, ffVars, shellVars>>

\* start_conversion, up to the loop over the titles (input directory and
\* output file are set and valid)
StartConversion ==
  /\ pc = "idle"
  /\ input_path.kind = "dir"
  /\ chapter_titles' = <<>>
  /\ patterns' = get_regex_patterns(patterns_list)
  /\ global_counter' = 1
  /\ pc' = "convert"
  /\ button_text' = "Stop"
  /\ progress_visible' = TRUE
  /\ UNCHANGED <<original_titles, patterns_list, preview_titles, edited_titles,
                 conversion_thread, preview_failed>>
  /\ UNCHANGED callVars
  /\ UNCHANGED <<dirVars, threadVars, ffVars>>
  /\ UNCHANGED <<button_enabled, pending, editVars, tempVars>>

\* start_conversion: one turn of the loop over the titles
ConvertTitle ==
  /\ pc = "convert"
  /\ Len(chapter_titles) < Len(original_titles)
  /\ chapter_titles' =
       Append(chapter_titles,
              ConvApplyPatterns(original_titles[Len(chapter_titles) + 1],
                                patterns, 1, global_counter))
  /\ global_counter' = global_counter + 1
  /\ UNCHANGED <<original_titles, patterns_list, patterns, preview_titles,
                 edited_titles, conversion_thread, pc, preview_failed>>
  /\ UNCHANGED callVars
  /\ UNCHANGED <<dirVars, threadVars, ffVars, shellVars>>

\* start_conversion creates the conversion thread with the input directory
\* and chapter_titles, starts it and returns.  The thread object held before
\* is replaced; signals of it that are still queued are marked
FinishConversion ==
  /\ pc = "convert"
  /\ Len(chapter_titles) = Len(original_titles)
  /\ conversion_thread' = "created"
  /\ thread_input_dir' = input_path
  /\ thread_titles' = chapter_titles
  /\ stop_requested' = FALSE
  /\ run_pc' = "started"
  /\ pc' = "idle"
  /\ patterns' = <<>>
  /\ global_counter' = 1
  /\ signal' = "none"
  /\ pending' = [k \in 1..Len(pending) |-> [pending[k] EXCEPT !.replaced = TRUE]]
  /\ UNCHANGED <<original_titles, patterns_list, chapter_titles, preview_titles,
                 edited_titles, preview_failed>>
  /\ UNCHANGED callVars
  /\ UNCHANGED <<dirVars, ffVars>>
  /\ UNCHANGED <<button_text, button_enabled, progress_visible, editVars, tempVars>>

Next ==
  \/ UpdateChapterPreview
  \/ PreviewTitle
  \/ FinishPreview
  \/ StartConversion
  \/ ConvertTitle
  \/ FinishConversion

Spec == Init /\ [][Next]_vars

SpecCounter == InitCounter /\ [][Next]_vars

\* titles and rows that exercise removal: every replacement is empty
RemovalTitleSet == { <<"x", "a", "x">>, <<"a", "x", "x", "a">>, <<"a", "b">> }

RemovalRuleSet ==
  { Rule(<<"x">>, <<>>),
    Rule(<<"x", "*">>, <<>>),
    Rule(<<"a", "x">>, <<>>),
    Rule(<<"(">>, <<>>) }

InitRemoval == GuiScanned(RemovalTitleSet, RemovalRuleSet) /\ FmtIdle /\ ScanIdle /\ MoveIdle /\ RestIdle /\ PureIdle /\ ShellIdle

SpecRemoval == InitRemoval /\ [][Next]_vars

\* titles and rows whose replacement holds a backslash
LiteralTitleSet == { <<"x">>, <<"a">>, <<"x", "a", "x">> }

LiteralRuleSet ==
  { Rule(<<"(", "x", ")">>, <<Backslash, "1">>),
    Rule(<<"x">>, <<Backslash, "q">>),
    Rule(<<"x">>, <<Backslash, Backslash>>),
    Rule(<<"(", "x", ")">>, <<"{", "n", "}", Backslash, "1">>),
    Rule(<<"x">>, <<"Y">>) }

InitLiteral == GuiScanned(LiteralTitleSet, LiteralRuleSet) /\ FmtIdle /\ ScanIdle /\ MoveIdle /\ RestIdle /\ PureIdle /\ ShellIdle

SpecLiteral == InitLiteral /\ [][Next]_vars

\* titles and rows with tokens that look like a placeholder and are none,
\* with a pattern that does not compile and a replacement pattern.sub rejects
MalformedTitleSet == { <<"x">>, <<"a">>, <<"x", "a", "x">> }

MalformedRuleSet ==
  { Rule(<<"x">>, <<"{", "n", "+", "x", "}">>),
    Rule(<<"x">>, <<"{", "n", "+", "}">>),
    Rule(<<"x">>, <<"{", "n", "+", "x", "}", "{", "n", "n", "+", "2", "}">>),
    Rule(<<"(">>, <<"Z">>),
    Rule(<<"x">>, <<Backslash, "q">>) }

InitMalformed == GuiScanned(MalformedTitleSet, MalformedRuleSet) /\ FmtIdle /\ ScanIdle /\ MoveIdle /\ RestIdle /\ PureIdle /\ ShellIdle

SpecMalformed == InitMalformed /\ [][Next]_vars

----------------------------------------------------------------------------
(* Specification SpecFaulty: the preview pass when a statement of a try    *)
(* block raises (a call into the list widget, for instance); the handler   *)
(* itself runs to its end.                                                 *)

FaultyTitleSet == { <<"a">>, <<"x">> }

FaultyRuleSet ==
  { Rule(<<"a">>, <<"b">>),
    Rule(<<"x">>, <<"Y">>),
    Rule(<<"(">>, <<"Z">>) }

InitFaulty == GuiScanned(FaultyTitleSet, FaultyRuleSet) /\ FmtIdle /\ ScanIdle /\ MoveIdle /\ RestIdle /\ PureIdle /\ ShellIdle

\* variant: the list is not cleared before the original titles are added
RestoreOriginalTitles_noclear(items, titles) == items \o titles

\* update_chapter_preview, except branch: the list is cleared and gets one
\* plain item per original title
RestoreOriginalTitles(items, titles) == titles

\* _process_single_title, except branch: a statement of its try block has
\* raised; the item is the original title and the counter advances
SingleTitleFails ==
  /\ pc = "preview"
  /\ Len(preview_titles) < Len(original_titles)
  /\ preview_titles' = Append(preview_titles, original_titles[Len(preview_titles) + 1])
  /\ global_counter' = global_counter + 1
  /\ UNCHANGED <<original_titles, patterns_list, patterns, chapter_titles,
                 edited_titles, conversion_thread, pc, preview_failed>>
  /\ UNCHANGED callVars
  /\ UNCHANGED <<dirVars, threadVars, ffVars, shellVars>>

\* update_chapter_preview, except branch: a statement of the loop has raised
\* before the list was complete; the error is logged and the method returns
PreviewFails ==
  /\ pc = "preview"
  /\ Len(preview_titles) < Len(original_titles)
  /\ preview_titles' = RestoreOriginalTitles(preview_titles, original_titles)
  /\ preview_failed' = TRUE
  /\ pc' = "idle"
  /\ patterns' = <<>>
  /\ global_counter' = 1
  /\ UNCHANGED <<original_titles, patterns_list, chapter_titles, edited_titles,
                 conversion_thread>>
  /\ UNCHANGED callVars
  /\ UNCHANGED <<dirVars, threadVars, ffVars, shellVars>>

NextFaulty ==
  \/ Next
  \/ SingleTitleFails
  \/ PreviewFails

SpecFaulty == InitFaulty /\ [][NextFaulty]_vars

----------------------------------------------------------------------------
(* Properties of the conversion pass and the preview pass.                 *)

\* the conversion pass has run to its end: chapter_titles is its result
ConversionDone == conversion_thread = "created" /\ pc # "convert"

\* the preview pass has run to its end: preview_titles is its result
PreviewDone == pc = "idle"

TitleIndices == 1..Len(original_titles)

\* the output of rule k of the rule list when rule k works on the output of
\* rule k - 1 and the first rule on the title itself
RECURSIVE RuleOutput(_, _, _, _)
RuleOutput(title, rows, k, counter) ==
  IF k = 0 THEN title
  ELSE ConvApplyPattern(RuleOutput(title, rows, k - 1, counter),
                        rows[k][1], rows[k][2], counter)

RECURSIVE PreviewRuleOutput(_, _, _, _)
PreviewRuleOutput(title, rows, k, counter) ==
  IF k = 0 THEN title
  ELSE IF rows[k][1] = <<>> THEN PreviewRuleOutput(title, rows, k - 1, counter)
  ELSE apply_single_pattern(PreviewRuleOutput(title, rows, k - 1, counter),
                            rows[k][1], rows[k][2], counter)[1]

\* a final title that differs from the original is a key of edited_titles
Recorded(original_title, final) ==
  final # original_title => \E kv \in edited_titles : kv[1] = final

Inserted(text) == <<InsertSpan>> \o text \o <<EndSpan>>

Removed(text) == <<RemoveSpan>> \o text \o <<EndSpan>>

R_ab == Rule(<<"a">>, <<"b">>)

R_bc == Rule(<<"b">>, <<"c">>)

\* C1: the rules are applied in list order and rule k works on the output of
\* rule k - 1: every resolved title is the output of the last rule of that
\* chain, and the final title of the preview pass, when it differs from the
\* original, is the one entered in edited_titles.  With R1 = (a -> b) and
\* R2 = (b -> c) the list [R1, R2] turns "a" into "c" and [R2, R1] turns it
\* into "b", in the conversion pass and in the preview pass.
C1_RuleOrder ==
  /\ ConversionDone =>
       \A i \in TitleIndices :
         chapter_titles[i] =
           RuleOutput(original_titles[i], patterns_list, Len(patterns_list), i)
  /\ PreviewDone =>
       \A i \in TitleIndices :
         Recorded(original_titles[i],
                  PreviewRuleOutput(original_titles[i], patterns_list,
                                    Len(patterns_list), i))
  /\ \A i \in TitleIndices :
       original_titles[i] = <<"a">> =>
         /\ ConversionDone /\ patterns_list = <<R_ab, R_bc>> =>
              chapter_titles[i] = <<"c">>
         /\ ConversionDone /\ patterns_list = <<R_bc, R_ab>> =>
              chapter_titles[i] = <<"b">>
         /\ PreviewDone /\ patterns_list = <<R_ab, R_bc>> =>
              /\ preview_titles[i] = Inserted(<<"c">>)
              /\ <<<<"c">>, <<"a">>>> \in edited_titles
         /\ PreviewDone /\ patterns_list = <<R_bc, R_ab>> =>
              /\ preview_titles[i] = Inserted(<<"b">>)
              /\ <<<<"b">>, <<"a">>>> \in edited_titles

\* C1 witness: both passes have run with [R1, R2] over a list that holds "a"
C1_Witness ==
  /\ ConversionDone
  /\ PreviewDone
  /\ patterns_list = <<R_ab, R_bc>>
  /\ original_titles = << <<"a">>, <<"a", "x">> >>
  /\ chapter_titles = << <<"c">>, <<"c", "x">> >>
  /\ preview_titles[1] = Inserted(<<"c">>)

\* the rows of the rule list whose pattern is not empty
NonEmptyRows(rows) == SelectSeq(rows, LAMBDA row : row[1] # <<>>)

\* C7: a rule with an empty match is inert: both passes give what they give
\* for the rule list without its empty-match rows, and when no row is left
\* the resolved titles are the original titles and the preview shows the
\* original titles unmarked.
C7_EmptyMatchInert ==
  LET rows == NonEmptyRows(patterns_list)
  IN /\ ConversionDone =>
          \A i \in TitleIndices :
            chapter_titles[i] = RuleOutput(original_titles[i], rows, Len(rows), i)
     /\ PreviewDone =>
          /\ Len(preview_titles) = Len(original_titles)
          /\ \A i \in TitleIndices :
               preview_titles[i] =
                 process_single_title(original_titles[i], rows, i, {}).text
     /\ rows = <<>> =>
          /\ ConversionDone => chapter_titles = original_titles
          /\ PreviewDone => preview_titles = original_titles

\* C7 witness: an empty-match row stands before a row that matches
C7_Witness ==
  /\ ConversionDone
  /\ PreviewDone
  /\ patterns_list = <<Rule(<<>>, <<"Z">>), Rule(<<"x">>, <<"Y">>)>>
  /\ original_titles = << <<"x">>, <<"a">> >>
  /\ chapter_titles = << <<"Y">>, <<"a">> >>
  /\ preview_titles = << Inserted(<<"Y">>), <<"a">> >>

\* the rows of the rule list whose pattern compiles
CompilingRows(rows) == SelectSeq(rows, LAMBDA row : re_compile(row[1]).ok)

\* C9: a rule whose match does not compile is skipped for every title while
\* the other rules still apply and every title is processed: both passes
\* give what they give for the rule list without the rows that do not
\* compile, and [("(", Z), (x, Y)] turns "x" into "Y".
C9_BadPatternSkipped ==
  LET rows == CompilingRows(patterns_list)
  IN /\ ConversionDone =>
          /\ Len(chapter_titles) = Len(original_titles)
          /\ \A i \in TitleIndices :
               chapter_titles[i] = RuleOutput(original_titles[i], rows, Len(rows), i)
     /\ PreviewDone =>
          /\ Len(preview_titles) = Len(original_titles)
          /\ \A i \in TitleIndices :
               preview_titles[i] =
                 process_single_title(original_titles[i], NonEmptyRows(rows), i, {}).text
     /\ patterns_list = <<Rule(<<"(">>, <<"Z">>), Rule(<<"x">>, <<"Y">>)>> =>
          \A i \in TitleIndices :
            original_titles[i] = <<"x">> =>
              /\ ConversionDone => chapter_titles[i] = <<"Y">>
              /\ PreviewDone => preview_titles[i] = Inserted(<<"Y">>)

\* C9 witness: the list [("(", Z), (x, Y)] has been applied to ["x"]
C9_Witness ==
  /\ ConversionDone
  /\ PreviewDone
  /\ patterns_list = <<Rule(<<"(">>, <<"Z">>), Rule(<<"x">>, <<"Y">>)>>
  /\ original_titles = << <<"x">> >>
  /\ chapter_titles = << <<"Y">> >>
  /\ preview_titles = << Inserted(<<"Y">>) >>

----------------------------------------------------------------------------
(* Properties of the chapter counter, under SpecCounter.                   *)

R_track == Rule(<<"x">>, <<"t", "r", "a", "c", "k", "-", "{", "n", "n", "}">>)

R_offset == Rule(<<"x">>, <<"{", "n", "+", "1", "0", "}">>)

R_two == Rule(<<"x">>, <<"{", "n", "}", "-", "{", "n", "n", "+", "5", "}">>)

R_k == Rule(<<"k">>, <<"{", "n", "}">>)

\* track-NN for the number v
Track(v) == <<"t", "r", "a", "c", "k", "-">> \o ZeroFill(str(v), 2)

\* C2 as claimed: the value fed into placeholder resolution for the title at
\* 0-based index i is i + 1, so that (x, track-{nn}) numbers the titles
\* track-01, track-02, ...  (TitleIndices counts the titles from 1.)
C2_Original ==
  ConversionDone /\ patterns_list = <<R_track>> =>
    \A i \in TitleIndices :
      original_titles[i] = <<"x">> => chapter_titles[i] = Track(i)

\* C2 as amended: the chapter counter of the title at 0-based index i is
\* i + 1 and the value fed into placeholder resolution is the counter minus
\* one, that is i: (x, track-{nn}) numbers the titles track-00, track-01, ...
\* in the conversion pass and in the preview pass.
C2_CounterValue ==
  /\ patterns_list = <<R_track>> =>
       \A i \in TitleIndices :
         original_titles[i] = <<"x">> =>
           /\ ConversionDone => chapter_titles[i] = Track(i - 1)
           /\ PreviewDone => preview_titles[i] = Inserted(Track(i - 1))
  /\ ConversionDone /\ patterns_list = <<R_track>>
       /\ original_titles = << <<"x">>, <<"x">> >> =>
       chapter_titles = << <<"t", "r", "a", "c", "k", "-", "0", "0">>,
                           <<"t", "r", "a", "c", "k", "-", "0", "1">> >>

\* C2 witness: (x, track-{nn}) has been applied to [x, x]
C2_Witness ==
  /\ ConversionDone
  /\ PreviewDone
  /\ patterns_list = <<R_track>>
  /\ original_titles = << <<"x">>, <<"x">> >>
  /\ chapter_titles[2] = <<"t", "r", "a", "c", "k", "-", "0", "1">>

\* C4: a placeholder with the offset K adds K to the sequence number of the
\* title: (x, {n+10}) turns the title x at 0-based index i into i + 10, so
\* [x, x] yields [10, 11], in the conversion pass and in the preview pass.
C4_Offset ==
  /\ patterns_list = <<R_offset>> =>
       \A i \in TitleIndices :
         original_titles[i] = <<"x">> =>
           /\ ConversionDone => chapter_titles[i] = str((i - 1) + 10)
           /\ PreviewDone => preview_titles[i] = Inserted(str((i - 1) + 10))
  /\ ConversionDone /\ patterns_list = <<R_offset>>
       /\ original_titles = << <<"x">>, <<"x">> >> =>
       chapter_titles = << <<"1", "0">>, <<"1", "1">> >>

\* C4 witness: (x, {n+10}) has been applied to [x, x]
C4_Witness ==
  /\ ConversionDone
  /\ PreviewDone
  /\ patterns_list = <<R_offset>>
  /\ original_titles = << <<"x">>, <<"x">> >>
  /\ chapter_titles = << <<"1", "0">>, <<"1", "1">> >>
  /\ preview_titles = << Inserted(<<"1", "0">>), Inserted(<<"1", "1">>) >>

\* C5: the chapter counter starts at 1 and advances by one with every title
\* of a pass, whatever the number of rules and matches and also when no rule
\* matched or a rule failed: during a pass it is the number of titles
\* processed plus one, and the title at position i is resolved with the
\* counter i.
C5_CounterPerTitle ==
  /\ pc = "convert" => global_counter = Len(chapter_titles) + 1
  /\ pc = "preview" => global_counter = Len(preview_titles) + 1
  /\ ConversionDone =>
       \A i \in TitleIndices :
         chapter_titles[i] =
           RuleOutput(original_titles[i], patterns_list, Len(patterns_list), i)

\* C5 witness: the preview pass has processed a title that no rule matches,
\* with a rule that does not compile in the list, and then a title with two
\* matches
C5_Witness ==
  /\ pc = "preview"
  /\ patterns_list = <<Rule(<<"(">>, <<"Z">>), R_two>>
  /\ original_titles = << <<"a">>, <<"x", "a", "x">> >>
  /\ Len(preview_titles) = 2
  /\ preview_titles[1] = <<"a">>
  /\ global_counter = 3

\* the replacement text with every placeholder resolved from one value
RECURSIVE ResolveWith(_, _, _)
RECURSIVE ResolveNext(_, _, _, _)
ResolveWith(text, pos, value) ==
  IF pos >= Len(text) THEN <<>>
  ELSE ResolveNext(text, pos, PlaceholderEnd(text, pos), value)

ResolveNext(text, pos, e, value) ==
  IF e = -1 THEN <<text[pos + 1]>> \o ResolveWith(text, pos + 1, value)
  ELSE format_number(value, Slice(text, pos + 1, e - 1)) \o ResolveWith(text, e, value)

\* every match of the rule replaced by the same text
AllMatchesReplaced(title, compiled, piece) ==
  IF compiled.ok THEN re_sub_literal(compiled, piece, title) ELSE title

\* the chain of the rules with every placeholder of every rule resolved from
\* the one value
RECURSIVE OneValueOutput(_, _, _, _)
OneValueOutput(title, rows, k, value) ==
  IF k = 0 THEN title
  ELSE AllMatchesReplaced(OneValueOutput(title, rows, k - 1, value),
                          re_compile(rows[k][1]),
                          ResolveWith(rows[k][2], 0, value))

\* both placeholders of R_two resolved from the value v
Two(v) == str(v) \o <<"-">> \o ZeroFill(str(v + 5), 2)

\* C6: within one title every match of every rule and every placeholder of
\* its replacement is resolved from the same counter value: the resolved
\* title is the chain of the rules with each match replaced by the
\* replacement resolved from the index of the title; (x, {n}-{nn+5}) gives
\* both matches of "xax" the same text, and the second rule of
\* [(x, track-{nn}), (k, {n})] uses the value of the first.
C6_OneValuePerTitle ==
  /\ ConversionDone =>
       \A i \in TitleIndices :
         chapter_titles[i] =
           OneValueOutput(original_titles[i], patterns_list, Len(patterns_list), i - 1)
  /\ patterns_list = <<R_two>> =>
       \A i \in TitleIndices :
         original_titles[i] = <<"x", "a", "x">> =>
           /\ ConversionDone =>
                chapter_titles[i] = Two(i - 1) \o <<"a">> \o Two(i - 1)
           /\ PreviewDone =>
                preview_titles[i] =
                  Inserted(Two(i - 1)) \o <<"a">> \o Inserted(Two(i - 1))
  /\ patterns_list = <<R_track, R_k>> =>
       \A i \in TitleIndices :
         original_titles[i] = <<"x">> =>
           /\ ConversionDone =>
                chapter_titles[i] =
                  <<"t", "r", "a", "c">> \o str(i - 1) \o <<"-">> \o ZeroFill(str(i - 1), 2)
           /\ PreviewDone =>
                preview_titles[i] =
                  <<"t", "r", "a", "c">> \o Inserted(str(i - 1)) \o <<"-">>
                    \o ZeroFill(str(i - 1), 2)

\* C6 witness: (x, {n}-{nn+5}) has been applied to [x, xax]
C6_Witness ==
  /\ ConversionDone
  /\ PreviewDone
  /\ patterns_list = <<R_two>>
  /\ original_titles = << <<"x">>, <<"x", "a", "x">> >>
  /\ chapter_titles = << <<"0", "-", "0", "5">>,
                         <<"1", "-", "0", "6", "a", "1", "-", "0", "6">> >>

----------------------------------------------------------------------------
(* Properties of rules with an empty replacement, under SpecRemoval.       *)

R_x == Rule(<<"x">>, <<>>)

R_xstar == Rule(<<"x", "*">>, <<>>)

\* the matches of a pattern in a title; a pattern that does not compile
\* matches nothing
MatchesCompiled(compiled, title) ==
  IF compiled.ok THEN re_finditer(compiled.toks, title) ELSE <<>>

MatchesOf(pattern_text, title) == MatchesCompiled(re_compile(pattern_text), title)

\* the character at 0-based position p lies inside a match
InSomeMatch(matches, p) ==
  \E k \in 1..Len(matches) : matches[k].s <= p /\ p < matches[k].e

\* the title without the characters that lie inside a match
RECURSIVE Unmatched(_, _, _)
Unmatched(title, matches, p) ==
  IF p >= Len(title) THEN <<>>
  ELSE (IF InSomeMatch(matches, p) THEN <<>> ELSE <<title[p + 1]>>)
         \o Unmatched(title, matches, p + 1)

\* what the marked title shows at position p: an empty match there, then the
\* character, with the marking opened where a match starts and closed where
\* it ends
MarkedAt(title, matches, p) ==
  (IF \E k \in 1..Len(matches) : matches[k].s = p /\ matches[k].e = p
   THEN <<RemoveSpan, EndSpan>> ELSE <<>>)
  \o (IF p >= Len(title) THEN <<>>
      ELSE (IF \E k \in 1..Len(matches) : matches[k].s = p /\ matches[k].e > p
            THEN <<RemoveSpan>> ELSE <<>>)
           \o <<title[p + 1]>>
           \o (IF \E k \in 1..Len(matches) : matches[k].e = p + 1 /\ matches[k].s <= p
               THEN <<EndSpan>> ELSE <<>>))

\* the title with every match wrapped in the removal marking
RECURSIVE Marked(_, _, _)
Marked(title, matches, p) ==
  IF p > Len(title) THEN <<>>
  ELSE MarkedAt(title, matches, p) \o Marked(title, matches, p + 1)

\* what the result shows at position p: the piece for an empty match there,
\* the piece for a match that starts there, the character outside matches
ReplacedAt(title, matches, piece, p) ==
  (IF \E k \in 1..Len(matches) : matches[k].s = p /\ matches[k].e = p
   THEN piece ELSE <<>>)
  \o (IF p >= Len(title) THEN <<>>
      ELSE IF \E k \in 1..Len(matches) : matches[k].s = p /\ matches[k].e > p
      THEN piece
      ELSE IF InSomeMatch(matches, p) THEN <<>>
      ELSE <<title[p + 1]>>)

\* the title with every match replaced by the piece
RECURSIVE Replaced(_, _, _, _)
Replaced(title, matches, piece, p) ==
  IF p > Len(title) THEN <<>>
  ELSE ReplacedAt(title, matches, piece, p) \o Replaced(title, matches, piece, p + 1)

\* the title after the first k removal rules
RECURSIVE DeletedChain(_, _, _)
DeletedBy(input, pattern_text) == Unmatched(input, MatchesOf(pattern_text, input), 0)

DeletedChain(title, rows, k) ==
  IF k = 0 THEN title
  ELSE DeletedBy(DeletedChain(title, rows, k - 1), rows[k][1])

\* the preview after the first k removal rules: the marking of the last rule
\* that matched, on the title that rule received
RECURSIVE MarkedChain(_, _, _)
MarkedBy(input, matches, title, rows, k) ==
  IF matches # <<>> THEN Marked(input, matches, 0)
  ELSE MarkedChain(title, rows, k - 1)

MarkedInput(input, title, rows, k) ==
  MarkedBy(input, MatchesOf(rows[k][1], input), title, rows, k)

MarkedChain(title, rows, k) ==
  IF k = 0 THEN title
  ELSE MarkedInput(DeletedChain(title, rows, k - 1), title, rows, k)

\* C8: a rule with a non-empty pattern and an empty replacement deletes
\* every matched substring from the resolved title, and its preview is the
\* title it received with every matched substring wrapped in the removal
\* marking and all other text verbatim and in place; (x, "") turns "xax"
\* into "a", and (x*, "") leaves "ab" as it is and marks three empty matches.
C8_Removal ==
  /\ ConversionDone =>
       \A i \in TitleIndices :
         chapter_titles[i] =
           DeletedChain(original_titles[i], patterns_list, Len(patterns_list))
  /\ PreviewDone =>
       \A i \in TitleIndices :
         preview_titles[i] =
           MarkedChain(original_titles[i], patterns_list, Len(patterns_list))
  /\ patterns_list = <<R_x>> =>
       \A i \in TitleIndices :
         original_titles[i] = <<"x", "a", "x">> =>
           /\ ConversionDone => chapter_titles[i] = <<"a">>
           /\ PreviewDone =>
                preview_titles[i] =
                  <<RemoveSpan, "x", EndSpan, "a", RemoveSpan, "x", EndSpan>>
  /\ patterns_list = <<R_xstar>> =>
       \A i \in TitleIndices :
         original_titles[i] = <<"a", "b">> =>
           /\ ConversionDone => chapter_titles[i] = <<"a", "b">>
           /\ PreviewDone =>
                preview_titles[i] =
                  <<RemoveSpan, EndSpan, "a", RemoveSpan, EndSpan, "b",
                    RemoveSpan, EndSpan>>

\* C8 witness: (x, "") has been applied to [xax, axxa]
C8_Witness ==
  /\ ConversionDone
  /\ PreviewDone
  /\ patterns_list = <<R_x>>
  /\ original_titles = << <<"x", "a", "x">>, <<"a", "x", "x", "a">> >>
  /\ chapter_titles = << <<"a">>, <<"a", "a">> >>
  /\ preview_titles[1] = Removed(<<"x">>) \o <<"a">> \o Removed(<<"x">>)

----------------------------------------------------------------------------
(* Properties of the preview entry and of replacements taken literally,    *)
(* under SpecLiteral.                                                      *)

\* the matches of a rule in the title it receives; a rule with an empty
\* pattern is inert
ActiveMatches(pattern_text, input) ==
  IF pattern_text = <<>> THEN <<>> ELSE MatchesOf(pattern_text, input)

\* the title with every match replaced by the marked piece
RECURSIVE InsertedAll(_, _, _, _, _)
InsertedAll(input, matches, piece, k, last_end) ==
  IF k > Len(matches) THEN Slice(input, last_end, Len(input))
  ELSE Slice(input, last_end, matches[k].s) \o Inserted(piece)
         \o InsertedAll(input, matches, piece, k + 1, matches[k].e)

\* the preview fragment of a rule that matched
Fragment(input, matches, replacement_text, value) ==
  IF replacement_text = <<>> THEN Marked(input, matches, 0)
  ELSE InsertedAll(input, matches, ResolveWith(replacement_text, 0, value), 1, 0)

\* the fragment of the last rule among the first k that matched, or the
\* title when none did; every rule receives the text effect of the rules
\* before it
RECURSIVE LastFragment(_, _, _, _)
LastFragmentBy(input, matches, title, rows, k, counter) ==
  IF matches # <<>> THEN Fragment(input, matches, rows[k][2], counter - 1)
  ELSE LastFragment(title, rows, k - 1, counter)

LastFragmentOn(input, title, rows, k, counter) ==
  LastFragmentBy(input, ActiveMatches(rows[k][1], input), title, rows, k, counter)

LastFragment(title, rows, k, counter) ==
  IF k = 0 THEN title
  ELSE LastFragmentOn(PreviewRuleOutput(title, rows, k - 1, counter),
                      title, rows, k, counter)

\* C11: the preview entry of a title is the preview fragment of the last
\* rule in list order that matched in the chain of that title, and the
\* original title, unmarked, when no rule matched.
C11_LastMatchPreview ==
  PreviewDone =>
    \A i \in TitleIndices :
      preview_titles[i] =
        LastFragment(original_titles[i], patterns_list, Len(patterns_list), i)

\* C15: every match is replaced by the replacement taken literally once its
\* counter placeholders are resolved, backslashes and group references
\* included, in the conversion pass and in the preview pass.
C15_LiteralReplacement ==
  /\ ConversionDone =>
       \A i \in TitleIndices :
         chapter_titles[i] =
           OneValueOutput(original_titles[i], patterns_list, Len(patterns_list), i - 1)
  /\ PreviewDone =>
       \A i \in TitleIndices :
         Recorded(original_titles[i],
                  OneValueOutput(original_titles[i], patterns_list,
                                 Len(patterns_list), i - 1))

----------------------------------------------------------------------------
(* Properties of malformed placeholders, under SpecMalformed.              *)

R_letter == Rule(<<"x">>, <<"{", "n", "+", "x", "}">>)

R_nodigit == Rule(<<"x">>, <<"{", "n", "+", "}">>)

R_mixed == Rule(<<"x">>, <<"{", "n", "+", "x", "}", "{", "n", "n", "+", "2", "}">>)

\* what R_mixed puts in place of a match for the value v
Mixed(v) == <<"{", "n", "+", "x", "}">> \o ZeroFill(str(v + 2), 2)

\* C16: a token that looks like a placeholder and whose offset is not a
\* number ({n+x}, {n+}) stays in the output as it was typed; the rule still
\* applies to every match, and a well-formed placeholder in the same
\* replacement ({n+x}{nn+2}) is still resolved.
C16_MalformedLiteral ==
  \A i \in TitleIndices :
    /\ patterns_list = <<R_letter>> =>
         /\ ConversionDone /\ original_titles[i] = <<"x">> =>
              chapter_titles[i] = <<"{", "n", "+", "x", "}">>
         /\ ConversionDone /\ original_titles[i] = <<"x", "a", "x">> =>
              chapter_titles[i] =
                <<"{", "n", "+", "x", "}", "a", "{", "n", "+", "x", "}">>
         /\ PreviewDone /\ original_titles[i] = <<"x">> =>
              preview_titles[i] = Inserted(<<"{", "n", "+", "x", "}">>)
    /\ patterns_list = <<R_nodigit>> =>
         /\ ConversionDone /\ original_titles[i] = <<"x">> =>
              chapter_titles[i] = <<"{", "n", "+", "}">>
         /\ PreviewDone /\ original_titles[i] = <<"x">> =>
              preview_titles[i] = Inserted(<<"{", "n", "+", "}">>)
    /\ patterns_list = <<R_mixed>> =>
         /\ ConversionDone /\ original_titles[i] = <<"x">> =>
              chapter_titles[i] = Mixed(i - 1)
         /\ ConversionDone /\ original_titles[i] = <<"x", "a", "x">> =>
              chapter_titles[i] = Mixed(i - 1) \o <<"a">> \o Mixed(i - 1)
         /\ PreviewDone /\ original_titles[i] = <<"x">> =>
              preview_titles[i] = Inserted(Mixed(i - 1))
    /\ patterns_list = <<R_nodigit, R_mixed>> =>
         /\ ConversionDone /\ original_titles[i] = <<"x">> =>
              chapter_titles[i] = <<"{", "n", "+", "}">>
         /\ PreviewDone /\ original_titles[i] = <<"x">> =>
              preview_titles[i] = Inserted(<<"{", "n", "+", "}">>)

\* C16 witness: ({n+x}{nn+2}) has been applied to [a, xax]
C16_Witness ==
  /\ ConversionDone
  /\ PreviewDone
  /\ patterns_list = <<R_mixed>>
  /\ original_titles = << <<"a">>, <<"x", "a", "x">> >>
  /\ chapter_titles =
       << <<"a">>,
          <<"{", "n", "+", "x", "}", "0", "3", "a", "{", "n", "+", "x", "}", "0", "3">> >>

----------------------------------------------------------------------------
(* Totality of the two passes, under SpecMalformed.                        *)

\* the rule can be applied: its pattern is not empty and compiles, and
\* pattern.sub accepts its replacement
AppliesCompiled(compiled, resolved) ==
  compiled.ok /\ expand_template(resolved, compiled.groups, <<>>, NullMatch).ok

Applies(row, value) ==
  /\ row[1] # <<>>
  /\ AppliesCompiled(re_compile(row[1]), ResolveWith(row[2], 0, value))

\* a rule that cannot be applied has no effect; the others replace every
\* match (replacements without group reference)
FallbackEffect(input, row, value) ==
  IF ~Applies(row, value) THEN input
  ELSE Replaced(input, MatchesOf(row[1], input),
                expand_template(ResolveWith(row[2], 0, value), 0, <<>>, NullMatch).text,
                0)

RECURSIVE FallbackChain(_, _, _, _)
FallbackChain(title, rows, k, value) ==
  IF k = 0 THEN title
  ELSE FallbackEffect(FallbackChain(title, rows, k - 1, value), rows[k], value)

\* the fragment of the last rule that was applied and matched
RECURSIVE FallbackPreview(_, _, _, _)
FallbackShown(input, matches, title, rows, k, value) ==
  IF Applies(rows[k], value) /\ matches # <<>>
  THEN Fragment(input, matches, rows[k][2], value)
  ELSE FallbackPreview(title, rows, k - 1, value)

FallbackInput(input, title, rows, k, value) ==
  FallbackShown(input, ActiveMatches(rows[k][1], input), title, rows, k, value)

FallbackPreview(title, rows, k, value) ==
  IF k = 0 THEN title
  ELSE FallbackInput(FallbackChain(title, rows, k - 1, value), title, rows, k, value)

\* C12: for every title list and rule list, patterns that do not compile,
\* malformed placeholders and replacements that pattern.sub rejects
\* included, both passes run to their end and give one entry per original
\* title in the order of the titles: entry i comes from title i, a rule
\* that fails having no effect on it.
C12_Total ==
  /\ Len(chapter_titles) <= Len(original_titles)
  /\ Len(preview_titles) <= Len(original_titles)
  /\ ConversionDone => Len(chapter_titles) = Len(original_titles)
  /\ PreviewDone => Len(preview_titles) = Len(original_titles)
  /\ \A i \in 1..Len(chapter_titles) :
       chapter_titles[i] =
         FallbackChain(original_titles[i], patterns_list, Len(patterns_list), i - 1)
  /\ pc \in {"preview", "idle"} =>
       \A i \in 1..Len(preview_titles) :
         preview_titles[i] =
           FallbackPreview(original_titles[i], patterns_list, Len(patterns_list), i - 1)

\* C12 witness: both passes have run over [a, xax] with a replacement that
\* pattern.sub rejects and a malformed placeholder in the rule list
C12_Witness ==
  /\ ConversionDone
  /\ PreviewDone
  /\ patterns_list = <<Rule(<<"x">>, <<Backslash, "q">>), R_mixed>>
  /\ original_titles = << <<"a">>, <<"x", "a", "x">> >>
  /\ chapter_titles[1] = <<"a">>
  /\ chapter_titles[2] = Mixed(1) \o <<"a">> \o Mixed(1)
  /\ preview_titles[1] = <<"a">>

----------------------------------------------------------------------------
(* Properties of a failing preview pass, under SpecFaulty.                 *)

\* C13: when the preview pass fails as a whole, the pass is over (the
\* failure is logged, not raised) and the preview list holds exactly the
\* original titles, one plain entry per title in order; in any pass an entry
\* is the processed title or, when the processing of that title failed, the
\* original title.
C13_PreviewFallback ==
  /\ preview_failed =>
       /\ pc # "preview"
       /\ preview_titles = original_titles
  /\ pc \in {"preview", "idle"} =>
       /\ Len(preview_titles) <= Len(original_titles)
       /\ \A i \in 1..Len(preview_titles) :
            \/ preview_titles[i] = original_titles[i]
            \/ preview_titles[i] =
                 FallbackPreview(original_titles[i], patterns_list,
                                 Len(patterns_list), i - 1)

\* C13 witness: the pass had marked up x and then failed; the list shows
\* the original titles again
C13_Witness ==
  /\ preview_failed
  /\ pc = "idle"
  /\ patterns_list = <<Rule(<<"x">>, <<"Y">>)>>
  /\ original_titles = << <<"x">>, <<"a">> >>
  /\ preview_titles = original_titles
  /\ <<<<"Y">>, <<"x">>>> \in edited_titles

----------------------------------------------------------------------------
(* Frame of the preview pass, under Spec.                                  *)

\* C14: a preview pass changes nothing but the preview list: no step of it
\* changes the original titles, the rule list or edited_titles.
C14_PreviewPure ==
  [][pc = "preview" =>
       /\ original_titles' = original_titles
       /\ patterns_list' = patterns_list
       /\ edited_titles' = edited_titles]_vars

----------------------------------------------------------------------------
(* Specification SpecFormat: format_number on bounded inputs.              *)

\* the placeholder bodies n..n and n..n+K
Bodies ==
  { Repeat("n", w) : w \in 1..MaxWidth } \cup
  { Repeat("n", w) \o <<"+">> \o str(k) : w \in 1..MaxWidth, k \in 0..MaxOffset } \cup
  { Repeat("n", w) \o <<"+", "0">> \o str(k) : w \in 1..MaxWidth, k \in 0..MaxOffset }

GuiIdle ==
  /\ original_titles = <<>>
  /\ patterns_list = <<>>
  /\ patterns = <<>>
  /\ global_counter = 1
  /\ chapter_titles = <<>>
  /\ preview_titles = <<>>
  /\ edited_titles = {}
  /\ conversion_thread = "none"
  /\ pc = "idle"
  /\ preview_failed = FALSE
  /\ DirIdle

InitFormat ==
  /\ GuiIdle
  /\ ScanIdle
  /\ MoveIdle
  /\ RestIdle /\ PureIdle /\ ShellIdle
  /\ fmt_num \in 0..MaxIndex
  /\ fmt_body \in Bodies
  /\ fmt_out = <<>>
  /\ fmt_pc = "in"

FormatNumber ==
  /\ fmt_pc = "in"
  /\ fmt_out' = format_number(fmt_num, fmt_body)
  /\ fmt_pc' = "out"
  /\ UNCHANGED <<fmt_num, fmt_body>>
  /\ UNCHANGED guiVars
  /\ UNCHANGED scanVars
  /\ UNCHANGED mv_log
  /\ UNCHANGED <<dirVars, threadVars, ffVars, pureVars, shellVars>>

NextFormat == FormatNumber

SpecFormat == InitFormat /\ [][NextFormat]_vars

\* width and offset of a body, read off its shape
BodyWidth(body) ==
  LET plus == FindCharFrom(body, "+", 0)
  IN IF plus = -1 THEN Len(body) ELSE plus

BodyOffset(body) ==
  LET plus == FindCharFrom(body, "+", 0)
  IN IF plus = -1 THEN 0 ELSE int(Slice(body, plus + 1, Len(body)))

\* number of decimal digits of a natural number
RECURSIVE NumDigits(_)
NumDigits(num) == IF num < 10 THEN 1 ELSE 1 + NumDigits(num \div 10)

\* C3: format_number(i, body) is the decimal rendering of i + K, padded
\* with 0 on the left to at least w digits and never truncated: it consists
\* of digits only, its value is i + K, and its length is the larger of w and
\* the number of digits of i + K.
C3_FormatNumber ==
  fmt_pc = "out" =>
    LET w == BodyWidth(fmt_body)
        value == fmt_num + BodyOffset(fmt_body)
    IN /\ \A k \in 1..Len(fmt_out) : IsDigit(fmt_out[k])
       /\ int(fmt_out) = value
       /\ Len(fmt_out) = (IF NumDigits(value) > w THEN NumDigits(value) ELSE w)

\* C3 witness: an offset body whose value has more digits than its width
C3_Witness ==
  /\ fmt_pc = "out"
  /\ BodyOffset(fmt_body) > 0
  /\ NumDigits(fmt_num + BodyOffset(fmt_body)) > BodyWidth(fmt_body)
  /\ Len(fmt_out) > BodyWidth(fmt_body)

----------------------------------------------------------------------------
(* Specification SpecScan: apply_single_pattern on its own, with the scan  *)
(* of pattern.finditer taken one match at a time.                          *)

ScanTitles == SeqsUpTo({"a", "b", "x"}, MaxScanLen)

ScanPatterns ==
  { <<"x", "*">>,
    <<"x", "*", "?">>,
    <<"x", "?">>,
    <<"a", "*", "x", "*">>,
    <<"x", "+">>,
    <<"x">> }

ScanReplacements == { <<>>, <<"-">>, <<"{", "n", "}">> }

InitScan ==
  /\ GuiIdle
  /\ FmtIdle
  /\ MoveIdle
  /\ RestIdle /\ PureIdle /\ ShellIdle
  /\ sc_title \in ScanTitles
  /\ sc_pattern \in ScanPatterns
  /\ sc_replacement \in ScanReplacements
  /\ sc_pos = 0
  /\ sc_must_advance = FALSE
  /\ sc_matches = <<>>
  /\ sc_result = <<>>
  /\ sc_pc = "finditer"

\* the scan has searched from sc_pos and found m
ScanFound(m) ==
  IF m = NoMatch
  THEN /\ sc_pc' = "sub"
       /\ UNCHANGED <<sc_pos, sc_must_advance, sc_matches>>
  ELSE /\ sc_matches' = Append(sc_matches, m)
       /\ sc_pos' = m.e
       /\ sc_must_advance' = (m.e = m.s)
       /\ UNCHANGED sc_pc

\* list(pattern.finditer(title)): the next match, or the end of the list
ScanStep ==
  /\ sc_pc = "finditer"
  /\ re_compile(sc_pattern).ok
  /\ ScanFound(SearchFrom(re_compile(sc_pattern).toks, sc_title,
                          sc_pos, sc_pos, sc_must_advance))
  /\ UNCHANGED <<sc_title, sc_pattern, sc_replacement, sc_result>>
  /\ UNCHANGED guiVars
  /\ UNCHANGED fmtVars
  /\ UNCHANGED mv_log
  /\ UNCHANGED <<dirVars, threadVars, ffVars, pureVars, shellVars>>

\* apply_single_pattern from `if not matches` to its return
ScanApply ==
  /\ sc_pc = "sub"
  /\ sc_result' = ApplyMatches(sc_title, re_compile(sc_pattern), sc_matches,
                               sc_replacement, 1)
  /\ sc_pc' = "done"
  /\ UNCHANGED <<sc_title, sc_pattern, sc_replacement, sc_pos, sc_must_advance,
                 sc_matches>>
  /\ UNCHANGED guiVars
  /\ UNCHANGED fmtVars
  /\ UNCHANGED mv_log
  /\ UNCHANGED <<dirVars, threadVars, ffVars, pureVars, shellVars>>

NextScan ==
  \/ ScanStep
  \/ ScanApply

SpecScan == InitScan /\ [][NextScan]_vars

\* the piece every match is replaced by: the replacement of the first title
ScanPiece == ResolveWith(sc_replacement, 0, 0)

\* start and end of the matches collected so far
ScanSpans == [k \in 1..Len(sc_matches) |-> <<sc_matches[k].s, sc_matches[k].e>>]

\* C10 as claimed: the number of matches of a scan is bounded by the title
\* length plus one.
C10_Original == Len(sc_matches) <= Len(sc_title) + 1

\* C10 as amended: the scan terminates with a well-defined result: a match
\* starts where the previous one ended or later, after an empty match the
\* next match is not empty or starts at least one character further on, the
\* number of matches is at most twice the position reached (plus one after
\* an empty match) and so at most twice the title length plus one, and the
\* result is the title with every match replaced; x* against "ab" with the
\* replacement - gives three empty matches and -a-b-.
C10_ScanTerminates ==
  /\ sc_pos <= Len(sc_title)
  /\ Len(sc_matches) <= 2 * sc_pos + (IF sc_must_advance THEN 1 ELSE 0)
  /\ Len(sc_matches) <= 2 * Len(sc_title) + 1
  /\ \A k \in 1..Len(sc_matches) :
       /\ sc_matches[k].s <= sc_matches[k].e
       /\ sc_matches[k].e <= Len(sc_title)
  /\ \A k \in 1..(Len(sc_matches) - 1) :
       /\ sc_matches[k + 1].s >= sc_matches[k].e
       /\ sc_matches[k].s = sc_matches[k].e =>
            \/ sc_matches[k + 1].s > sc_matches[k].e
            \/ sc_matches[k + 1].e > sc_matches[k + 1].s
  /\ sc_pc = "done" =>
       sc_result[1] = Replaced(sc_title, sc_matches, ScanPiece, 0)
  /\ sc_pc = "done" /\ sc_pattern = <<"x", "*">> /\ sc_title = <<"a", "b">>
       /\ sc_replacement = <<"-">> =>
       /\ ScanSpans = << <<0, 0>>, <<1, 1>>, <<2, 2>> >>
       /\ sc_result[1] = <<"-", "a", "-", "b", "-">>

\* C10 witness: x* has been applied to "ab" with the replacement -
C10_Witness ==
  /\ sc_pc = "done"
  /\ sc_pattern = <<"x", "*">>
  /\ sc_title = <<"a", "b">>
  /\ sc_replacement = <<"-">>
  /\ Len(sc_matches) = 3
  /\ sc_result[1] = <<"-", "a", "-", "b", "-">>

----------------------------------------------------------------------------
(* Specification SpecReorder: rows of the rule list are moved up and down  *)
(* while no titles are loaded.                                             *)

ReorderRuleSet ==
  { Rule(<<"a">>, <<"b">>),
    Rule(<<"b">>, <<"c">>),
    Rule(<<"x">>, <<"Y">>) }

InitReorder ==
  /\ original_titles = <<>>
  /\ patterns_list \in SeqsUpTo(ReorderRuleSet, MaxRows)
  /\ patterns = <<>>
  /\ global_counter = 1
  /\ chapter_titles = <<>>
  /\ preview_titles = <<>>
  /\ edited_titles = {}
  /\ conversion_thread = "none"
  /\ pc = "idle"
  /\ preview_failed = FALSE
  /\ DirIdle
  /\ FmtIdle
  /\ ScanIdle
  /\ MoveIdle
  /\ RestIdle /\ PureIdle /\ ShellIdle

\* what a move leaves alone; update_chapter_preview clears the empty preview
\* list and returns
MoveFrame ==
  /\ preview_titles' = <<>>
  /\ preview_failed' = FALSE
  /\ UNCHANGED <<original_titles, patterns, global_counter, chapter_titles,
                 edited_titles, conversion_thread, pc>>
  /\ UNCHANGED fmtVars
  /\ UNCHANGED scanVars
  /\ UNCHANGED <<dirVars, threadVars, ffVars, pureVars, shellVars>>

\* AudiobookConverterGUI.move_pattern_up: the up button of the row is clicked
MovePatternUp(row) ==
  /\ pc = "idle"
  /\ Len(mv_log) < MaxMoves
  /\ patterns_list' = move_pattern_up(patterns_list, row)
  /\ mv_log' = Append(mv_log, [op |-> "up", row |-> row, before |-> patterns_list])
  /\ MoveFrame

\* AudiobookConverterGUI.move_pattern_down: the down button of the row is clicked
MovePatternDown(row) ==
  /\ pc = "idle"
  /\ Len(mv_log) < MaxMoves
  /\ patterns_list' = move_pattern_down(patterns_list, row)
  /\ mv_log' = Append(mv_log, [op |-> "down", row |-> row, before |-> patterns_list])
  /\ MoveFrame

NextReorder ==
  \/ \E row \in 0..(Len(patterns_list) - 1) : MovePatternUp(row)
  \/ \E row \in 0..(Len(patterns_list) - 1) : MovePatternDown(row)

SpecReorder == InitReorder /\ [][NextReorder]_vars

\* the rows with the contents of the 1-based rows i and j exchanged
Swapped(rows, i, j) ==
  [k \in 1..Len(rows) |->
     IF k = i THEN rows[j] ELSE IF k = j THEN rows[i] ELSE rows[k]]

\* the last move and the one before it
LastMove == mv_log[Len(mv_log)]

MoveBefore == mv_log[Len(mv_log) - 1]

\* C17: move_pattern_up on row r > 0 exchanges the contents of the rows r
\* and r - 1 and leaves the other rows and the number of rows as they were,
\* and does nothing on row 0; move_pattern_down exchanges r and r + 1 and
\* does nothing on the last row; a rule moved up and then down again is
\* back where it was, and so are all rows.
C17_Reorder ==
  mv_log # <<>> =>
    /\ Len(patterns_list) = Len(LastMove.before)
    /\ LastMove.op = "up" /\ LastMove.row > 0 =>
         patterns_list = Swapped(LastMove.before, LastMove.row + 1, LastMove.row)
    /\ LastMove.op = "up" /\ LastMove.row = 0 =>
         patterns_list = LastMove.before
    /\ LastMove.op = "down" /\ LastMove.row < Len(patterns_list) - 1 =>
         patterns_list = Swapped(LastMove.before, LastMove.row + 1, LastMove.row + 2)
    /\ LastMove.op = "down" /\ LastMove.row = Len(patterns_list) - 1 =>
         patterns_list = LastMove.before
    /\ Len(mv_log) >= 2 =>
         (MoveBefore.op = "up" /\ MoveBefore.row > 0
            /\ LastMove.op = "down" /\ LastMove.row = MoveBefore.row - 1 =>
          patterns_list = MoveBefore.before)

\* C17 witness: the last of three different rows has been moved up and then
\* down again
C17_Witness ==
  /\ Len(mv_log) = 2
  /\ mv_log[1].op = "up"
  /\ mv_log[1].row = 2
  /\ mv_log[1].before = <<R_ab, R_bc, Rule(<<"x">>, <<"Y">>)>>
  /\ mv_log[2].op = "down"
  /\ mv_log[2].row = 1
  /\ mv_log[2].before = <<R_ab, Rule(<<"x">>, <<"Y">>), R_bc>>
  /\ patterns_list = <<R_ab, R_bc, Rule(<<"x">>, <<"Y">>)>>

----------------------------------------------------------------------------
(* Specification SpecDirectory: the input directory is changed, the titles *)
(* are previewed, and conversions are started and stopped.                 *)

\* a tagged file, a second one, one on which ffprobe fails and one whose
\* title lookup raises
DirFileSet ==
  { File(1, <<"a">>, "ok"),
    File(2, <<"x">>, "ok"),
    File(3, <<"a">>, "failed"),
    File(4, <<"x">>, "raises") }

\* the paths the input field may come to hold
DirPathSet ==
  { NoPath, NotADirectory } \cup
  { Directory(entries) : entries \in { e \in SUBSET DirFileSet : Cardinality(e) <= MaxTitles } }

DirRuleSet == { Rule(<<"a">>, <<"b">>) }

\* the window is constructed; the user has typed rules
InitDirectory ==
  /\ original_titles = <<>>
  /\ patterns_list \in SeqsUpTo(DirRuleSet, MaxRules)
  /\ patterns = <<>>
  /\ global_counter = 1
  /\ chapter_titles = <<>>
  /\ preview_titles = <<>>
  /\ edited_titles = {}
  /\ conversion_thread = "none"
  /\ pc = "idle"
  /\ preview_failed = FALSE
  /\ DirIdle
  /\ FmtIdle
  /\ ScanIdle
  /\ MoveIdle
  /\ RestIdle /\ PureIdle /\ ShellIdle

\* update_chapter_list, the loop over the files: the titles read before a
\* lookup raises
RECURSIVE TitlesRead(_, _)
TitlesRead(files, i) ==
  IF i > Len(files) THEN <<>>
  ELSE IF get_audio_title(files[i]).raised THEN <<>>
  ELSE <<get_audio_title(files[i]).title>> \o TitlesRead(files, i + 1)

\* update_chapter_list from the assignment of chapter_files on: titles is
\* what the loop has read when it ends or a lookup raises
ListFiles(files, titles) ==
  /\ chapter_files' = files
  /\ original_titles' = titles
  /\ preview_titles' = titles
  /\ pc' = IF Len(titles) = Len(files) THEN "scanned" ELSE "idle"

\* update_chapter_list: the text of the input field has changed to p.  With
\* all titles read the method goes on to update_chapter_preview
UpdateChapterList(p) ==
  /\ pc = "idle"
  /\ p # input_path
  /\ input_path' = p
  /\ IF p.kind = "empty"
     THEN UNCHANGED <<chapter_files, original_titles, preview_titles, pc>>
     ELSE IF p.kind # "dir"
     THEN UNCHANGED <<chapter_files, original_titles, preview_titles, pc>>
     ELSE IF process_audio_files(p).raised
     THEN UNCHANGED <<chapter_files, original_titles, preview_titles, pc>>
     ELSE ListFiles(process_audio_files(p).files,
                    TitlesRead(process_audio_files(p).files, 1))
  /\ UNCHANGED <<patterns_list, patterns, global_counter, chapter_titles,
                 edited_titles, conversion_thread, preview_failed>>
  /\ UNCHANGED callVars
  /\ UNCHANGED <<threadVars, ffVars, shellVars>>

\* ConversionThread.stop
Stop ==
  /\ stop_requested' = TRUE
  /\ UNCHANGED <<thread_input_dir, thread_titles, run_pc, signal>>

\* QThread.isRunning: the thread has been started and has not finished
isRunning == run_pc \in {"started", "emitted"}

\* handle_convert_stop: the enabled button is clicked.  A running conversion
\* is asked to stop and the button is disabled, otherwise start_conversion
\* is called
HandleConvertStop ==
  /\ button_enabled
  /\ IF conversion_thread = "created" /\ isRunning
     THEN /\ pc = "idle"
          /\ Stop
          /\ button_enabled' = FALSE
          /\ button_text' = "Stopping..."
          /\ UNCHANGED guiVars
          /\ UNCHANGED callVars
          /\ UNCHANGED <<dirVars, ffVars>>
          /\ UNCHANGED <<progress_visible, pending, editVars, tempVars>>
     ELSE /\ Len(pending) < MaxPending
          /\ StartConversion

\* the keyword arguments of the call of generate_m4b in ConversionThread.run
run_keywords ==
  { "input_dir", "output_file", "metadata", "settings", "chapter_titles",
    "stop_event", "progress_callback" }

\* the parameters of generate_m4b
generate_m4b_parameters ==
  { "input_dir", "output_file", "metadata", "settings", "chapter_titles",
    "stop_event" }

\* a call with a keyword that is no parameter raises TypeError
CallRaises(keywords, parameters) == ~(keywords \subseteq parameters)

\* ConversionThread.run: the call of generate_m4b raises before the function
\* is entered; the exception is caught and reported by the error signal
ThreadRun ==
  /\ run_pc = "started"
  /\ CallRaises(run_keywords, generate_m4b_parameters)
  /\ signal' = "error"
  /\ pending' = Append(pending, [signal |-> "error", replaced |-> FALSE])
  /\ run_pc' = "emitted"
  /\ UNCHANGED <<thread_input_dir, thread_titles, stop_requested>>
  /\ UNCHANGED guiVars
  /\ UNCHANGED callVars
  /\ UNCHANGED <<dirVars, ffVars>>
  /\ UNCHANGED <<button_text, button_enabled, progress_visible, editVars, tempVars>>

\* run has returned and the thread has finished: isRunning() is false from
\* now on
ThreadFinished ==
  /\ run_pc = "emitted"
  /\ run_pc' = "ended"
  /\ UNCHANGED <<thread_input_dir, thread_titles, stop_requested, signal>>
  /\ UNCHANGED guiVars
  /\ UNCHANGED callVars
  /\ UNCHANGED <<dirVars, ffVars, shellVars>>

\* conversion_finished, conversion_stopped, conversion_error: the GUI thread
\* takes the oldest queued signal and runs its handler
ConversionSignal ==
  /\ pc = "idle"
  /\ pending # <<>>
  /\ pending' = Tail(pending)
  /\ progress_visible' = FALSE
  /\ button_enabled' = TRUE
  /\ button_text' = "Convert to M4B"
  /\ UNCHANGED guiVars
  /\ UNCHANGED callVars
  /\ UNCHANGED <<dirVars, threadVars, ffVars>>
  /\ UNCHANGED <<editVars, tempVars>>

\* the thread object that emitted the oldest queued signal has been replaced
\* and collected before the signal was handled, and the signal is dropped
\* with it
DropSignal ==
  /\ pc = "idle"
  /\ pending # <<>>
  /\ Head(pending).replaced
  /\ pending' = Tail(pending)
  /\ UNCHANGED guiVars
  /\ UNCHANGED callVars
  /\ UNCHANGED <<dirVars, threadVars, ffVars>>
  /\ UNCHANGED <<button_text, button_enabled, progress_visible, editVars, tempVars>>

NextDirectory ==
  \/ \E p \in DirPathSet : UpdateChapterList(p)
  \/ UpdateChapterPreview
  \/ PreviewTitle
  \/ FinishPreview
  \/ HandleConvertStop
  \/ ConvertTitle
  \/ FinishConversion
  \/ ThreadRun
  \/ ThreadFinished
  \/ ConversionSignal
  \/ DropSignal

SpecDirectory == InitDirectory /\ [][NextDirectory]_vars

\* C20: after every handled change of the input directory original_titles
\* holds exactly one title per file of the current scan, in scan order: as
\* many titles as chapter_files has files, each the title of its file, and
\* the files are those of the path the input field holds now, none left over
\* from another directory.
C20_FreshTitles ==
  pc # "preview" =>
    /\ Len(original_titles) = Len(chapter_files)
    /\ \A i \in 1..Len(original_titles) :
         /\ i <= Len(chapter_files)
         /\ ~get_audio_title(chapter_files[i]).raised
         /\ original_titles[i] = get_audio_title(chapter_files[i]).title
    /\ chapter_files =
         (IF process_audio_files(input_path).raised THEN <<>>
          ELSE process_audio_files(input_path).files)

\* generate_m4b: the files of the input directory, scanned again when the
\* conversion runs, are the files the chapters are written for
input_files(input_dir) == process_audio_files(input_dir)

\* create_chapter_metadata: the title of the chapter of the file of
\* zero-based index i
chapter_title(files, titles, i) ==
  IF titles # <<>> /\ i < Len(titles)
  THEN [raised |-> FALSE, title |-> titles[i + 1]]
  ELSE get_audio_title(files[i + 1])

\* C19: the resolved titles handed to the conversion are aligned one-to-one
\* with the file list the chapter-authoring step uses: whenever a conversion
\* has been handed its titles and the scan of its input directory delivers
\* files, there are as many titles as files and the chapter of file i gets
\* the resolved title of index i.
C19_Aligned ==
  (run_pc # "none" /\ ~input_files(thread_input_dir).raised) =>
    /\ Len(thread_titles) = Len(input_files(thread_input_dir).files)
    /\ \A i \in 0..(Len(input_files(thread_input_dir).files) - 1) :
         i < Len(thread_titles) =>
           chapter_title(input_files(thread_input_dir).files, thread_titles, i)
             = [raised |-> FALSE, title |-> thread_titles[i + 1]]

----------------------------------------------------------------------------
(* Specification SpecGenerate: the body of generate_m4b, entered from     *)
(* ConversionThread.run with an input directory, chapter titles and a      *)
(* stop_event that reads the flag ConversionThread.stop sets, and the      *)
(* lines of run after the call.  The dependencies are present and the      *)
(* output directory can be made; durations and codecs are left out.        *)

MaxLines == 2       \* most lines of the subprocess waiting to be read

\* resolved titles a caller may hand over
GenTitleSet == { <<"b">>, <<"x">> }

InitGenerate ==
  /\ GuiIdle
  /\ FmtIdle
  /\ ScanIdle
  /\ MoveIdle
  /\ thread_input_dir \in DirPathSet
  /\ thread_titles \in SeqsUpTo(GenTitleSet, MaxTitles)
  /\ stop_requested = FALSE
  /\ run_pc = "started"
  /\ signal = "none"
  /\ ffmpeg = "none"
  /\ returncode = 0
  /\ stderr_lines = 0
  /\ chapters = <<>>
  /\ loop_pc = "scan"
  /\ stop_while_running = FALSE
  /\ PureIdle /\ ShellIdle

\* what a step of generate_m4b leaves alone
GenFrame ==
  /\ UNCHANGED <<thread_input_dir, thread_titles, run_pc, signal>>
  /\ UNCHANGED guiVars
  /\ UNCHANGED callVars
  /\ UNCHANGED dirVars
  /\ UNCHANGED <<buttonVars, editVars>>

\* generate_m4b, the finally block: every file named in temp_files is
\* unlinked; what is left of the files on disk
CleanUp(on_disk, registered) == on_disk \ Range(registered)

\* generate_m4b: the input directory is scanned; an exception is logged and
\* raised again
GenScan ==
  /\ loop_pc = "scan"
  /\ loop_pc' = IF input_files(thread_input_dir).raised THEN "failed" ELSE "concat"
  /\ disk' = IF input_files(thread_input_dir).raised
             THEN CleanUp(disk, temp_files) ELSE disk
  /\ UNCHANGED <<ffmpeg, returncode, stderr_lines, chapters, stop_requested,
                 stop_while_running, temp_files>>
  /\ GenFrame

\* generate_m4b: create_concat_file writes concat.txt, and its name is
\* appended to temp_files
GenConcat ==
  /\ loop_pc = "concat"
  /\ disk' = disk \cup {"concat.txt"}
  /\ temp_files' = Append(temp_files, "concat.txt")
  /\ loop_pc' = "chapters"
  /\ UNCHANGED <<ffmpeg, returncode, stderr_lines, chapters, stop_requested,
                 stop_while_running>>
  /\ GenFrame

\* create_chapter_metadata: the titles written from the file of zero-based
\* index i on, up to a title lookup that raises
RECURSIVE ChaptersFrom(_, _, _)
ChaptersFrom(files, titles, i) ==
  IF i >= Len(files) THEN <<>>
  ELSE IF chapter_title(files, titles, i).raised THEN <<>>
  ELSE <<chapter_title(files, titles, i).title>> \o ChaptersFrom(files, titles, i + 1)

\* generate_m4b: create_chapter_metadata opens chapters.txt and writes one
\* chapter per file; the name is appended to temp_files when it has
\* returned.  An exception out of it runs the finally block.
GenChapters ==
  /\ loop_pc = "chapters"
  /\ chapters' = ChaptersFrom(input_files(thread_input_dir).files, thread_titles, 0)
  /\ IF Len(chapters') = Len(input_files(thread_input_dir).files)
     THEN /\ loop_pc' = "popen"
          /\ temp_files' = Append(temp_files, "chapters.txt")
          /\ disk' = disk \cup {"chapters.txt"}
     ELSE /\ loop_pc' = "failed"
          /\ temp_files' = temp_files
          /\ disk' = CleanUp(disk \cup {"chapters.txt"}, temp_files)
  /\ UNCHANGED <<ffmpeg, returncode, stderr_lines, stop_requested,
                 stop_while_running>>
  /\ GenFrame

\* run_ffmpeg_with_progress: subprocess.Popen
Popen ==
  /\ loop_pc = "popen"
  /\ ffmpeg' = "running"
  /\ loop_pc' = "check"
  /\ UNCHANGED <<returncode, stderr_lines, chapters, stop_requested,
                 stop_while_running, tempVars>>
  /\ GenFrame

\* run_ffmpeg_with_progress, top of the loop: with the stop requested the
\* subprocess is terminated and waited for, and RuntimeError is raised
CheckStop ==
  /\ loop_pc = "check"
  /\ IF stop_requested
     THEN /\ ffmpeg' = IF ffmpeg = "running" THEN "terminated" ELSE ffmpeg
          /\ returncode' = IF ffmpeg = "running" THEN -15 ELSE returncode
          /\ loop_pc' = "stopped"
          /\ disk' = CleanUp(disk, temp_files)
     ELSE /\ loop_pc' = "readline"
          /\ UNCHANGED <<ffmpeg, returncode, disk>>
  /\ UNCHANGED <<stderr_lines, chapters, stop_requested, stop_while_running,
                 temp_files>>
  /\ GenFrame

\* process.stderr.readline() returns a line, which is logged
ReadLine ==
  /\ loop_pc = "readline"
  /\ stderr_lines > 0
  /\ stderr_lines' = stderr_lines - 1
  /\ loop_pc' = "check"
  /\ UNCHANGED <<ffmpeg, returncode, chapters, stop_requested,
                 stop_while_running, tempVars>>
  /\ GenFrame

\* process.stderr.readline() returns '' and process.poll() is not None: the
\* loop is left, communicate() returns and the return code decides
ReadEnd ==
  /\ loop_pc = "readline"
  /\ stderr_lines = 0
  /\ ffmpeg = "exited"
  /\ loop_pc' = IF returncode # 0 THEN "failed" ELSE "tag"
  /\ disk' = IF returncode # 0 THEN CleanUp(disk, temp_files) ELSE disk
  /\ UNCHANGED <<ffmpeg, returncode, stderr_lines, chapters, stop_requested,
                 stop_while_running, temp_files>>
  /\ GenFrame

\* generate_m4b: the metadata is written to the finished file with MP4; an
\* exception is logged and raised again.  Then the finally block runs.
GenTag(tagged) ==
  /\ loop_pc = "tag"
  /\ loop_pc' = IF tagged THEN "returned" ELSE "failed"
  /\ disk' = CleanUp(disk, temp_files)
  /\ UNCHANGED <<ffmpeg, returncode, stderr_lines, chapters, stop_requested,
                 stop_while_running, temp_files>>
  /\ GenFrame

\* the subprocess writes a line to its standard error
FfmpegWrites ==
  /\ ffmpeg = "running"
  /\ stderr_lines < MaxLines
  /\ stderr_lines' = stderr_lines + 1
  /\ UNCHANGED <<ffmpeg, returncode, chapters, loop_pc, stop_requested,
                 stop_while_running, tempVars>>
  /\ GenFrame

\* the subprocess ends by itself with return code rc
FfmpegExits(rc) ==
  /\ ffmpeg = "running"
  /\ ffmpeg' = "exited"
  /\ returncode' = rc
  /\ UNCHANGED <<stderr_lines, chapters, loop_pc, stop_requested,
                 stop_while_running, tempVars>>
  /\ GenFrame

\* ConversionThread.stop is called while generate_m4b is at work
StopRequested ==
  /\ loop_pc \notin {"returned", "stopped", "failed"}
  /\ ~stop_requested
  /\ stop_requested' = TRUE
  /\ stop_while_running' = (ffmpeg = "running")
  /\ UNCHANGED <<ffmpeg, returncode, stderr_lines, chapters, loop_pc, tempVars>>
  /\ GenFrame

\* ConversionThread.run after the call: stopped or finished when
\* generate_m4b has returned, error when it has raised
RunEmits ==
  /\ run_pc = "started"
  /\ loop_pc \in {"returned", "stopped", "failed"}
  /\ signal' = IF loop_pc = "returned"
               THEN (IF stop_requested THEN "stopped" ELSE "finished")
               ELSE "error"
  /\ run_pc' = "emitted"
  /\ UNCHANGED <<thread_input_dir, thread_titles, stop_requested>>
  /\ UNCHANGED <<guiVars, callVars, dirVars, ffVars, shellVars>>

NextGenerate ==
  \/ GenScan
  \/ GenConcat
  \/ GenChapters
  \/ Popen
  \/ CheckStop
  \/ ReadLine
  \/ ReadEnd
  \/ \E tagged \in BOOLEAN : GenTag(tagged)
  \/ FfmpegWrites
  \/ \E rc \in {0, 1} : FfmpegExits(rc)
  \/ StopRequested
  \/ RunEmits

SpecGenerate == InitGenerate /\ [][NextGenerate]_vars

\* C18: transcoding is cancelable by the stop signal: once stop() has been
\* requested while the transcoder subprocess was running, generate_m4b does
\* not return normally as if no stop had been requested, and when it has
\* ended the subprocess runs no more.
C18_Cancelable ==
  stop_while_running =>
    /\ loop_pc # "returned"
    /\ loop_pc \in {"stopped", "failed"} => ffmpeg \in {"terminated", "exited"}

----------------------------------------------------------------------------
(* Specification SpecEscape: the escaping of a chapter title in            *)
(* create_chapter_metadata, applied to bounded titles.                     *)

MaxEscLen == 3      \* longest title that is escaped

EscChars == { "a", "=", ";", "#", "\\" }

\* str.replace(old, new) for a one-character old
RECURSIVE ReplaceChar(_, _, _)
ReplaceChar(text, old, new) ==
  IF text = <<>> THEN <<>>
  ELSE (IF Head(text) = old THEN new ELSE <<Head(text)>>)
         \o ReplaceChar(Tail(text), old, new)

\* the chain of replace calls that gives escaped_title
EscapeTitle(title) ==
  ReplaceChar(
    ReplaceChar(
      ReplaceChar(
        ReplaceChar(title, "=", <<"\\", "=">>),
        ";", <<"\\", ";">>),
      "#", <<"\\", "#">>),
    "\\", <<"\\", "\\">>)

InitEscape ==
  /\ GuiIdle
  /\ FmtIdle
  /\ ScanIdle
  /\ MoveIdle
  /\ RestIdle /\ ShellIdle
  /\ CmdIdle
  /\ ChapIdle
  /\ esc_title \in SeqsUpTo(EscChars, MaxEscLen)
  /\ esc_out = <<>>
  /\ esc_pc = "in"

Escape ==
  /\ esc_pc = "in"
  /\ esc_out' = EscapeTitle(esc_title)
  /\ esc_pc' = "out"
  /\ UNCHANGED esc_title
  /\ UNCHANGED <<cmdVars, chVars>>
  /\ UNCHANGED <<guiVars, fmtVars, scanVars, mv_log>>
  /\ UNCHANGED <<dirVars, threadVars, ffVars, shellVars>>

NextEscape == Escape

SpecEscape == InitEscape /\ [][NextEscape]_vars

IsSpecial(c) == c \in { "=", ";", "#", "\\" }

\* every special character preceded by one escaping backslash
RECURSIVE Escaped(_)
Escaped(title) ==
  IF title = <<>> THEN <<>>
  ELSE (IF IsSpecial(Head(title)) THEN <<"\\", Head(title)>> ELSE <<Head(title)>>)
         \o Escaped(Tail(title))

\* the escaping backslash before each escaped character removed
RECURSIVE Unescaped(_)
Unescaped(text) ==
  IF text = <<>> THEN <<>>
  ELSE IF Head(text) = "\\" /\ Len(text) >= 2
  THEN <<text[2]>> \o Unescaped(Tail(Tail(text)))
  ELSE <<Head(text)>> \o Unescaped(Tail(text))

\* C27: the escaping of a chapter title is a faithful encoding: in the written
\* title each special character (=, ;, #, backslash) of the title is preceded
\* by exactly one escaping backslash, nothing else is changed, and removing
\* the escaping backslashes gives the title back.
C27_EscapeFaithful ==
  esc_pc = "out" =>
    /\ esc_out = Escaped(esc_title)
    /\ Unescaped(esc_out) = esc_title

----------------------------------------------------------------------------
(* Specification SpecCommand: the audio options of the transcoder command  *)
(* generate_m4b builds, for the settings the settings tab can deliver and  *)
(* the codecs read from the input files.                                   *)

AutoCodec == "Auto (Copy if possible)"

\* get_conversion_settings: what the widgets of the settings tab may hold
SettingsSet ==
  [ codec : { AutoCodec, "AAC", "AAC-LC" },
    bitrate : { "Auto", "128k" },
    sample_rate : { "Auto", "44100" },
    force_conversion : BOOLEAN ]

\* get_audio_codec, file by file; "" when ffprobe fails
CodecSet == { "aac", "mp3", "" }

InitCommand ==
  /\ GuiIdle
  /\ FmtIdle
  /\ ScanIdle
  /\ MoveIdle
  /\ RestIdle /\ ShellIdle
  /\ EscIdle
  /\ ChapIdle
  /\ cmd_settings \in SettingsSet
  /\ cmd_codecs \in SeqsUpTo(CodecSet, MaxTitles) \ { <<>> }
  /\ cmd_audio = <<>>
  /\ cmd_pc = "in"

\* generate_m4b: can_copy
CanCopy(settings, codecs) ==
  IF settings.codec = AutoCodec
  THEN \A i \in 1..Len(codecs) : codecs[i] \in { "aac", "mp4a" }
  ELSE FALSE

\* generate_m4b: the options after "Audio codec settings"
AudioOptions(settings, codecs) ==
  IF settings.codec = AutoCodec /\ CanCopy(settings, codecs)
  THEN <<"-c:a", "copy">>
  ELSE <<"-c:a", "aac">>
         \o (IF settings.bitrate # "Auto" THEN <<"-b:a", settings.bitrate>> ELSE <<>>)
         \o (IF settings.sample_rate # "Auto" THEN <<"-ar", settings.sample_rate>>
             ELSE <<>>)

BuildCommand ==
  /\ cmd_pc = "in"
  /\ cmd_audio' = AudioOptions(cmd_settings, cmd_codecs)
  /\ cmd_pc' = "out"
  /\ UNCHANGED <<cmd_settings, cmd_codecs>>
  /\ UNCHANGED <<escVars, chVars>>
  /\ UNCHANGED <<guiVars, fmtVars, scanVars, mv_log>>
  /\ UNCHANGED <<dirVars, threadVars, ffVars, shellVars>>

NextCommand == BuildCommand

SpecCommand == InitCommand /\ [][NextCommand]_vars

\* the command copies the audio stream
StreamCopy == Len(cmd_audio) >= 2 /\ cmd_audio[1] = "-c:a" /\ cmd_audio[2] = "copy"

\* the command encodes the audio to AAC
Reencodes == Len(cmd_audio) >= 2 /\ cmd_audio[1] = "-c:a" /\ cmd_audio[2] = "aac"

AllAac == \A i \in 1..Len(cmd_codecs) : cmd_codecs[i] = "aac"

\* C29: with 'Force conversion' on the command re-encodes to aac and never
\* copies the stream, also with the codec setting Auto and all inputs AAC;
\* the stream is copied only with force conversion off, the codec setting
\* Auto and all inputs AAC.
C29_ForceConversion ==
  cmd_pc = "out" =>
    /\ cmd_settings.force_conversion => (Reencodes /\ ~StreamCopy)
    /\ StreamCopy =>
         (~cmd_settings.force_conversion /\ cmd_settings.codec = AutoCodec /\ AllAac)

----------------------------------------------------------------------------
(* Specification SpecChapters: the time ranges create_chapter_metadata     *)
(* writes.  Times are exact multiples of a quarter of a millisecond, so    *)
(* that int() truncates something; the rounding of float addition is left  *)
(* out.  get_audio_duration returns positive durations only.               *)

Unit == 4           \* quarters of a millisecond in a millisecond

MaxDuration == 6    \* longest duration of a file, in quarters of a millisecond

\* int(x) for a time x >= 0
int_ms(x) == x \div Unit

InitChapters ==
  /\ GuiIdle
  /\ FmtIdle
  /\ ScanIdle
  /\ MoveIdle
  /\ RestIdle /\ ShellIdle
  /\ EscIdle
  /\ CmdIdle
  /\ ch_durations \in SeqsUpTo(1..MaxDuration, MaxTitles)
  /\ ch_start_time = 0
  /\ ch_chapters = <<>>
  /\ ch_pc = "loop"

\* START=int(start_time)
ChapterStart(start_time) == int_ms(start_time)

\* variant: the end is rounded up
ChapterEnd_ceil(start_time, duration) == int_ms(start_time + duration + Unit - 1)

\* END=int(start_time + duration)
ChapterEnd(start_time, duration) == int_ms(start_time + duration)

ChapterFrame ==
  /\ UNCHANGED ch_durations
  /\ UNCHANGED <<escVars, cmdVars>>
  /\ UNCHANGED <<guiVars, fmtVars, scanVars, mv_log>>
  /\ UNCHANGED <<dirVars, threadVars, ffVars, shellVars>>

\* create_chapter_metadata: one turn of the loop over the files
WriteChapter ==
  /\ ch_pc = "loop"
  /\ Len(ch_chapters) < Len(ch_durations)
  /\ ch_chapters' =
       Append(ch_chapters,
              [START |-> ChapterStart(ch_start_time),
               END |-> ChapterEnd(ch_start_time,
                                  ch_durations[Len(ch_chapters) + 1])])
  /\ ch_start_time' = ch_start_time + ch_durations[Len(ch_chapters) + 1]
  /\ UNCHANGED ch_pc
  /\ ChapterFrame

\* create_chapter_metadata returns
FinishChapters ==
  /\ ch_pc = "loop"
  /\ Len(ch_chapters) = Len(ch_durations)
  /\ ch_pc' = "done"
  /\ UNCHANGED <<ch_start_time, ch_chapters>>
  /\ ChapterFrame

NextChapters ==
  \/ WriteChapter
  \/ FinishChapters

SpecChapters == InitChapters /\ [][NextChapters]_vars

\* the length of chapter i differs from the duration of file i by less than
\* a millisecond
NearDuration(i) ==
  /\ Unit * (ch_chapters[i].END - ch_chapters[i].START) - ch_durations[i] < Unit
  /\ ch_durations[i] - Unit * (ch_chapters[i].END - ch_chapters[i].START) < Unit

\* C26: the chapters written for n files are n chapters in file order that
\* tile the book: the first starts at 0, every chapter has END >= START with
\* END - START its file's duration in milliseconds up to truncation, and each
\* chapter starts where the one before it ends.
C26_Tiling ==
  /\ ch_pc = "done" => Len(ch_chapters) = Len(ch_durations)
  /\ Len(ch_chapters) <= Len(ch_durations)
  /\ \A i \in 1..Len(ch_chapters) :
       /\ ch_chapters[i].END >= ch_chapters[i].START
       /\ NearDuration(i)
       /\ i = 1 => ch_chapters[i].START = 0
       /\ i > 1 => ch_chapters[i].START = ch_chapters[i - 1].END

\* two chapters are written, and neither boundary falls on a whole millisecond
C26_Witness ==
  /\ ch_pc = "done"
  /\ Len(ch_chapters) = 2
  /\ ch_durations[1] % Unit # 0
  /\ ch_start_time % Unit # 0
  /\ ch_chapters[2].START > 0

----------------------------------------------------------------------------
(* Agreement of the two passes, under SpecLiteral.                         *)

\* current_title at the end of _process_single_title for the title of
\* one-based index i: the counter of the preview pass is i
PreviewFinal(i) ==
  PreviewApplyPatterns(original_titles[i], <<>>,
                       get_regex_patterns(patterns_list), 1, i)[1]

\* C28: the preview path and the conversion path agree: the final title the
\* preview computes for index i is the chapter title start_conversion
\* computes for index i, also for replacements with a counter placeholder
\* together with backslash or group-reference sequences.
C28_PathsAgree ==
  ConversionDone =>
    \A i \in TitleIndices : chapter_titles[i] = PreviewFinal(i)


\* C25: the temporary control files are always cleaned up: after
\* generate_m4b has returned or raised (a failure while the chapter file is
\* written, a transcoder failure, a tagging failure and a user stop
\* included), neither concat.txt nor chapters.txt remains on disk.
C25_CleanedUp ==
  loop_pc \in {"returned", "stopped", "failed"} =>
    /\ "concat.txt" \notin disk
    /\ "chapters.txt" \notin disk

C21_CallAccepted ==
  (/\ run_pc \in {"emitted", "ended"}
   /\ ~stop_requested
   /\ ~input_files(thread_input_dir).raised
   /\ Len(ChaptersFrom(input_files(thread_input_dir).files, thread_titles, 0))
        = Len(input_files(thread_input_dir).files))
    => /\ ~CallRaises(run_keywords, generate_m4b_parameters)
       /\ signal # "error"

\* C24: at most one conversion runs at a time and the convert button
\* reflects it: whenever the conversion thread is running the button reads
\* "Stop" or "Stopping...", so that it reads "Convert to M4B" only when no
\* conversion is running, whatever the order of clicks, the end of the
\* thread and the handling of its signal.
C24_ButtonReflects ==
  (conversion_thread = "created" /\ isRunning) =>
    button_text \in {"Stop", "Stopping..."}

\* C23: every execution of ConversionThread.run emits exactly one of
\* finished, stopped and error, handling it returns the window to idle, and
\* a button disabled by a stop request is always enabled again: while the
\* button is disabled the signal that enables it is still to be emitted or
\* to be handled.
C23_ButtonReenabled ==
  /\ run_pc = "started" => signal = "none"
  /\ run_pc \in {"emitted", "ended"} => signal \in {"finished", "stopped", "error"}
  /\ ~button_enabled =>
       \/ run_pc = "started"
       \/ \E k \in 1..Len(pending) : ~pending[k].replaced

----------------------------------------------------------------------------
(* Specification SpecEdit: the titles of the preview list are edited by    *)
(* hand while the preview is rebuilt from the rules.                       *)

EditTitleSet == { <<"a">>, <<"x">> }

EditRuleSet == { <<<<"a">>, <<"b">>>> }

\* the texts typed into the editor of an item
EditTextSet == { <<"e">> }

InitEdit ==
  GuiScanned(EditTitleSet, EditRuleSet) /\ FmtIdle /\ ScanIdle /\ MoveIdle
    /\ RestIdle /\ PureIdle /\ ShellIdle

\* what an edit of a title leaves alone
EditFrame ==
  /\ UNCHANGED <<original_titles, patterns_list, patterns, global_counter,
                 chapter_titles, conversion_thread, pc, preview_failed>>
  /\ UNCHANGED callVars
  /\ UNCHANGED <<dirVars, threadVars, ffVars>>
  /\ UNCHANGED <<buttonVars, tempVars>>

\* edit_title: the item of row i is double-clicked.  With is_editing set the
\* method returns at once; otherwise the flag is set, the handler of
\* itemChanged is connected and the editor of the item is opened
EditTitle(i) ==
  /\ pc = "idle"
  /\ i \in 1..Len(preview_titles)
  /\ IF is_editing
     THEN UNCHANGED editVars
     ELSE /\ is_editing' = TRUE
          /\ edit_handler_connected' = TRUE
          /\ edit_item' = i
  /\ UNCHANGED <<preview_titles, edited_titles>>
  /\ EditFrame

\* handle_title_edit: the editor is closed with a changed text, the list
\* emits itemChanged and the connected handler stores the text, disconnects
\* itself and clears the flag
HandleTitleEdit(text) ==
  /\ pc = "idle"
  /\ edit_item # 0
  /\ text # preview_titles[edit_item]
  /\ preview_titles' = [preview_titles EXCEPT ![edit_item] = text]
  /\ edit_item' = 0
  /\ IF edit_handler_connected /\ is_editing
     THEN /\ edited_titles' = DictSet(edited_titles, text, original_titles[edit_item])
          /\ edit_handler_connected' = FALSE
          /\ is_editing' = FALSE
     ELSE UNCHANGED <<edited_titles, edit_handler_connected, is_editing>>
  /\ EditFrame

\* the editor is closed without a change (Escape, or Enter on the same
\* text): the list emits nothing and no method of the window runs
CancelEdit ==
  /\ pc = "idle"
  /\ edit_item # 0
  /\ edit_item' = 0
  /\ UNCHANGED <<is_editing, edit_handler_connected, preview_titles, edited_titles>>
  /\ EditFrame

NextEdit ==
  \/ UpdateChapterPreview
  \/ PreviewTitle
  \/ FinishPreview
  \/ \E i \in 1..MaxTitles : EditTitle(i)
  \/ \E text \in EditTextSet : HandleTitleEdit(text)
  \/ CancelEdit

SpecEdit == InitEdit /\ [][NextEdit]_vars

\* C30: the title-edit guard admits one edit at a time and never sticks:
\* is_editing is true only while an edit session is open, and when no
\* session is open (the last one committed, cancelled without a change, or
\* ended because the preview list was rebuilt) is_editing is false and the
\* itemChanged handler is disconnected, so that a double-click starts a new
\* edit.
C30_GuardReleased ==
  edit_item = 0 => (~is_editing /\ ~edit_handler_connected)

=============================================================================
